---- MODULE Spec2Model ----
(***************************************************************************)
(* Order-hierarchy execution and fill propagation of the sql-cli VWAP      *)
(* generators: client order -> algo parent -> slice -> venue route.        *)
(*                                                                         *)
(* One run of one generator is a behaviour.  `variant` names the program   *)
(* that is running:                                                        *)
(*   "fixed"  data/generate_production_vwap_fixed.py ProductionVWAPGenerator *)
(*   "prod"   data/generate_production_vwap.py ProductionVWAPSimulator     *)
(*   "final"  data/generate_final_vwap.py generate_final_vwap              *)
(*   "tickdb" scripts/generate_tick_database.py TickDatabaseGenerator      *)
(*   "v1"     scripts/trading_system_simulator.py                          *)
(*   "v2"     scripts/trading_system_simulator_v2.py                       *)
(*   "sor"    scripts/sor_simulator_enhanced.py SmartOrderRouter (SorSpec) *)
(*   "venue"  scripts/sor_simulator_enhanced.py EnhancedVenue (VenueSpec)  *)
(*   "findata"       scripts/generate_financial_data.py (FinSpec)          *)
(*   "findata_fixed" scripts/generate_financial_data_fixed.py (FinSpec)    *)
(* Each program is a sequential loop nest; `pc` is its position and every  *)
(* action is one loop step of the source.                                  *)
(*                                                                         *)
(* Quantities are integers.  Prices are integers (price units); an         *)
(* average_price is the exact rational <<value, quantity>>, so that        *)
(* value / quantity is never rounded by the model.                         *)
(***************************************************************************)
EXTENDS Integers, Sequences, FiniteSets, TLC

VARIABLES
    variant,        \* which generator runs
    detail_level,   \* --detail of fixed / final
    order_size,     \* total order quantity
    avg_slice_size, \* --slice-size of fixed / final
    pc,             \* position in the program
    client_order,   \* the level-0 order dict
    algo_parent,    \* the level-1 order dict
    slices,         \* every slice dict created so far, the current one last
    snapshots,      \* the tick database, in append order
    record_id,      \* next record id
    fills,          \* every non-zero fill so far: [slice, hour, qty, price]
    parent_fills,   \* parent_data['fills'] of simulator v1 / v2, fills_data of tickdb
    total_filled,   \* self.total_filled / total_filled
    total_value,    \* self.total_value / total_value
    hour,           \* index of the hour loop
    slice_in_hour,  \* index of the slice loop
    hour_slices,    \* slices of this hour
    urgency,        \* urgency computed at the start of the hour
    basis,          \* the cumulative fill the last urgency decision read
    route_num,      \* index of the route loop
    slice_filled,   \* slice_filled of the slice being routed
    slice_value,    \* slice_value of the slice being routed
    pending,        \* the fill handed to the cascade, or NoFill
    deviations,     \* random draws so far that departed from the default draw
    instruction,    \* prod: the instruction decided with the urgency
    slice_size,     \* prod: the slice size decided with the urgency
    hour_filled,    \* prod: quantity filled in this hour
    routed,         \* v1: the SOR orders route_order returned, not yet executed
    num_venues,     \* v1 / tickdb: venues drawn for the slice being routed
    sor_counter,    \* counter the route order ids are made from
    remaining_qty,  \* enhanced SOR: remaining_qty of route_order
    retry_count,    \* enhanced SOR: retry_count of route_order
    round_fills,    \* enhanced SOR: round_fills of the pass
    liquidity,      \* enhanced SOR: liquidity of the selected venues, in rank order
    execution_records, \* enhanced SOR: execution_records of route_order
    venue_list,     \* VWAPAlgoSimulator: venues[:n] of _route_to_sor, shuffled
    orders,         \* VWAPAlgoSimulator: self.orders, the recorded order dicts
    current_time,   \* fixed / prod: current_time, in milliseconds after 09:00:00
    snapshot_times  \* fixed / prod: snapshot_time of every record of the tick database

vars == <<variant, detail_level, order_size, avg_slice_size, pc, client_order, algo_parent,
          slices, snapshots, record_id, fills, parent_fills, total_filled,
          total_value, hour, slice_in_hour, hour_slices, urgency, basis,
          route_num, slice_filled, slice_value, pending, deviations,
          instruction, slice_size, hour_filled, routed, num_venues, sor_counter,
          remaining_qty, retry_count, round_fills, liquidity, execution_records,
          venue_list, orders,
          current_time, snapshot_times>>

\* the run's configuration: never assigned after construction
cfgVars == <<variant, detail_level, order_size, avg_slice_size>>
\* locals of ProductionVWAPSimulator.generate_execution
prodVars == <<instruction, slice_size, hour_filled>>
\* locals of simulator v1's run_vwap_simulation
v1Vars == <<routed, num_venues>>
\* locals of EnhancedSmartOrderRouter.route_order
sorVars == <<remaining_qty, retry_count, round_fills, liquidity, execution_records>>
\* state of VWAPAlgoSimulator
finVars == <<venue_list, orders>>
\* the clock of the fixed and the production generator
timeVars == <<current_time, snapshot_times>>

----------------------------------------------------------------------------
(* Bounds of the exploration *)

\* slices created in one run
MaxSlices == 4
\* random draws of one run that depart from the reference draw (a venue
\* that fills at the base price, no size jitter, ReferenceVenues venues for
\* a slice, the fewest slices in an hour)
MaxDeviations == 1
\* largest cumulative fill the urgency classification is applied to
MaxActual == 1000
\* slices ProductionVWAPSimulator creates in one run: its hours are short
MaxProdSlices == MaxSlices + 2
\* calls of the fill cascade a caller makes on one slice
MaxFills == 2

(* Program constants *)

\* hours = 7
Hours == 7
\* min(slices_per_hour, 50)
SliceCap == 50

\* the market price and one price step above it
BasePrice == 650
Prices == {BasePrice, BasePrice + 2}

DetailLevels == {"full", "summary", "client_only"}

NoFill == [qty |-> 0, price |-> 0]

----------------------------------------------------------------------------
(* Arithmetic helpers *)

Min(a, b) == IF a <= b THEN a ELSE b
Max(a, b) == IF a >= b THEN a ELSE b

\* value / quantity as an exact rational; 0.0 is <<0, 1>>
Zero == <<0, 1>>
Ratio(value, qty) == <<value, qty>>
\* equality of two rationals (equal denominators compare by numerator)
RatEq(a, b) == IF a[2] = b[2] THEN a[1] = b[1] ELSE a[1] * b[2] = b[1] * a[2]
\* a * n as an integer value, for a = <<value, n>> or a = 0
RatTimes(a, n) == IF a[2] = n THEN a[1] ELSE (a[1] * n) \div a[2]

RECURSIVE SumQty(_)
SumQty(fs) == IF fs = <<>> THEN 0 ELSE fs[1].qty + SumQty(Tail(fs))

RECURSIVE SumValue(_)
SumValue(fs) == IF fs = <<>> THEN 0 ELSE fs[1].qty * fs[1].price + SumValue(Tail(fs))

FillsOf(k) == SelectSeq(fills, LAMBDA f : f.slice = k)

----------------------------------------------------------------------------
(* Orders and the tick database *)

CLIENT_ID == <<"CLIENT", 1>>
ALGO_ID == <<"ALGO", 1>>
SliceId(k) == <<"SLICE", k>>
SorId(k) == <<"SOR", k>>
\* the client's own id of the order of this run
CLIENT_ORDER_ID == <<"C", 1>>

\* an order dict as every generator creates it: nothing filled yet; reason
\* is the key a reason text is stored under (reject_reason, fade_reason);
\* urgency, instruction and record_id are keys only some generators set
\* ("NONE" and -1 stand for an absent key); client_order_id is the id the
\* run was given for its client order, which every generator writes on the
\* orders it creates unless the step says otherwise
NewOrder(id, parent, level, qty, st) ==
    [order_id |-> id, parent_order_id |-> parent, order_level |-> level,
     client_order_id |-> CLIENT_ORDER_ID,
     quantity |-> qty, filled_quantity |-> 0, remaining_quantity |-> qty,
     average_price |-> Zero, state |-> st, reason |-> "NONE",
     urgency |-> "NONE", instruction |-> "NONE", record_id |-> -1]

\* a copy of the order, tagged and stamped with record id rid, appended to the log
snapshot_copy(log, order, event_type, rid) ==
    Append(log, [order_id |-> order.order_id,
                 parent_order_id |-> order.parent_order_id,
                 order_level |-> order.order_level,
                 client_order_id |-> order.client_order_id,
                 quantity |-> order.quantity,
                 filled_quantity |-> order.filled_quantity,
                 remaining_quantity |-> order.remaining_quantity,
                 average_price |-> order.average_price,
                 state |-> order.state,
                 reason |-> order.reason,
                 urgency |-> order.urgency,
                 instruction |-> order.instruction,
                 event_type |-> event_type,
                 record_id |-> rid])

\* seeded fault: the record counter is not advanced between two snapshots
add_snapshot_same_id(log, order, event_type) ==
    snapshot_copy(log, order, event_type, record_id)

\* add_snapshot / capture_snapshot: the copy is stamped with the record
\* counter, which every call advances by one; log is the tick database after
\* the calls made so far in this step
add_snapshot(log, order, event_type) ==
    snapshot_copy(log, order, event_type, record_id + (Len(log) - Len(snapshots)))

\* snapshots.append(order.copy()) of generate_final_vwap: the copy carries the
\* record_id key the dict was given
append_copy(log, order, event_type) ==
    snapshot_copy(log, order, event_type, order.record_id)

\* several add_snapshot calls in a row; items are <<order, event_type>>
RECURSIVE add_snapshots(_, _)
add_snapshots(log, items) ==
    IF items = <<>> THEN log
    ELSE add_snapshots(add_snapshot(log, items[1][1], items[1][2]), Tail(items))

CurSlice == slices[Len(slices)]
SetCurSlice(o) == [slices EXCEPT ![Len(slices)] = o]

----------------------------------------------------------------------------
(* The venue response draw shared by the generators *)

\* the draws explored: a fade, reject, partial fill or a fill away from the
\* base price spends the deviation budget; a zero fill has no price
Deviates(result, qty, price) == result # "FILLED" \/ (qty > 0 /\ price # BasePrice)

DrawAllowed(result, qty, price) ==
    /\ (Deviates(result, qty, price) => deviations < MaxDeviations)
    /\ (qty = 0 => price = BasePrice)

DrawSpent(result, qty, price) ==
    deviations' = IF Deviates(result, qty, price) THEN deviations + 1 ELSE deviations

\* the venue count of the reference draw: the middle of random.randint(1, 3)
ReferenceVenues == CHOOSE n \in 1..3 : n - 1 \in 1..3 /\ n + 1 \in 1..3

\* 1 for a draw that departs from the reference draw
Departs(b) == IF b THEN 1 ELSE 0

\* k departing draws are within the budget, and are spent
Spend(k) == deviations + k <= MaxDeviations /\ deviations' = deviations + k

\* timedelta(hours=, minutes=, seconds=, milliseconds=), in milliseconds
timedelta(hours, minutes, seconds, milliseconds) ==
    ((hours * 60 + minutes) * 60 + seconds) * 1000 + milliseconds

\* seconds=random.randint(0, 30) of the slice time of the fixed generator:
\* the two ends of the range
SecondsDraws == {0, 30}
\* the millisecond datetime.now() leaves in the slice time of the production
\* generator, whose replace() sets hour, minute and second only
NowMilliseconds == {0, 999}
\* the lowest draw of a set of draws
ReferenceDraw(draws) == CHOOSE d \in draws : \A e \in draws : d <= e

----------------------------------------------------------------------------
(* ProductionVWAPGenerator  (data/generate_production_vwap_fixed.py)       *)

VenueResults == {"FILLED", "PARTIAL", "FADE", "REJECT", "NO_CONNECTION"}

\* the urgency decision of generate, from the cumulative fill
UrgencyOfRate(filled, expected) ==
    IF expected <= 0 \/ filled * 100 < 70 * expected THEN "CRITICAL"
    ELSE IF filled * 100 < 85 * expected THEN "URGENT"
    ELSE IF filled * 100 < 95 * expected THEN "NORMAL"
    ELSE "PASSIVE"

\* random.randint bounds of the slice size, by urgency
SliceSizes(urg, avg) ==
    IF urg = "CRITICAL" THEN (avg * 2)..(avg * 4)
    ELSE IF urg = "URGENT" THEN avg..(avg * 2)
    ELSE (avg \div 2)..avg

NumRoutes(urg) == IF urg \in {"CRITICAL", "URGENT"} THEN 3 ELSE 2

\* the key of the reason text a route order is given, by venue outcome
route_reason(result) ==
    IF result = "NO_CONNECTION" THEN "reject_reason"
    ELSE IF result = "FADE" THEN "fade_reason"
    ELSE "NONE"

\* seeded fault: a venue that fills gives one share more than was asked
FilledQty_one_more(result, route_size) ==
    IF result = "FILLED" THEN route_size + 1
    ELSE IF result = "PARTIAL" THEN route_size \div 2
    ELSE 0

\* seeded fault: a partial fill is half the request rounded up
FilledQty_half_up(result, route_size) ==
    IF result = "FILLED" THEN route_size
    ELSE IF result = "PARTIAL" THEN (route_size + 1) \div 2
    ELSE 0

\* filled quantity of a route by venue outcome
FilledQty(result, route_size) ==
    IF result = "FILLED" THEN route_size
    ELSE IF result = "PARTIAL" THEN route_size \div 2
    ELSE 0

\* seeded fault: the fill is not added to the running total
running_total_lost(total, fill_qty) == total

\* self.total_filled += slice_filled
running_total(total, fill_qty) == total + fill_qty

\* seeded fault: the slice update without the remaining_quantity assignment
propagate_slice_stale_remaining(slice_order, fill_qty, fill_value) ==
    LET f == slice_order.filled_quantity + fill_qty IN
    [slice_order EXCEPT
        !.filled_quantity = f,
        !.average_price = IF f > 0 THEN Ratio(fill_value, fill_qty) ELSE @,
        !.state = IF f >= slice_order.quantity THEN "FILLED" ELSE "PARTIAL"]

\* the slice update of propagate_fill_up_chain
propagate_slice(slice_order, fill_qty, fill_value) ==
    LET f == slice_order.filled_quantity + fill_qty IN
    [slice_order EXCEPT
        !.filled_quantity = f,
        !.remaining_quantity = slice_order.quantity - f,
        !.average_price = IF f > 0 THEN Ratio(fill_value, fill_qty) ELSE @,
        !.state = IF f >= slice_order.quantity THEN "FILLED" ELSE "PARTIAL"]

\* seeded fault: the algo parent is Filled as soon as anything is filled
propagate_parent_any_fill(parent, filled, value, size) ==
    [parent EXCEPT
        !.filled_quantity = filled,
        !.remaining_quantity = size - filled,
        !.average_price = IF filled > 0 THEN Ratio(value, filled) ELSE @,
        !.state = IF filled > 0 THEN "FILLED" ELSE "WORKING"]

\* the algo parent update of propagate_fill_up_chain, from the running totals
propagate_parent(parent, filled, value, size) ==
    [parent EXCEPT
        !.filled_quantity = filled,
        !.remaining_quantity = size - filled,
        !.average_price = IF filled > 0 THEN Ratio(value, filled) ELSE @,
        !.state = IF filled >= size THEN "FILLED" ELSE "WORKING"]

\* the client update of propagate_fill_up_chain
propagate_client(client, parent, filled, size) ==
    [client EXCEPT
        !.filled_quantity = filled,
        !.remaining_quantity = size - filled,
        !.average_price = parent.average_price,
        !.state = parent.state]

\* generate, up to the hour loop: client NEW and ACCEPTED, algo parent NEW
generate_orders ==
    /\ variant = "fixed" /\ pc = "start"
    /\ LET c0 == NewOrder(CLIENT_ID, <<"NONE", 0>>, 0, order_size, "PENDING")
           c1 == [c0 EXCEPT !.state = "ACCEPTED"]
           a0 == NewOrder(ALGO_ID, CLIENT_ID, 1, order_size, "WORKING")
       IN /\ client_order' = c1
          /\ algo_parent' = a0
          /\ snapshots' = add_snapshots(snapshots,
                 << <<c0, "NEW">>, <<c1, "ACCEPTED">>, <<a0, "NEW">> >>)
    /\ current_time' = timedelta(0, 0, 1, 0)
    /\ snapshot_times' = snapshot_times
                            \o <<0, timedelta(0, 0, 1, 0), timedelta(0, 0, 1, 0)>>
    /\ record_id' = record_id + 3
    /\ hour' = 0
    /\ pc' = "hour"
    /\ UNCHANGED <<cfgVars, sorVars, finVars, prodVars, v1Vars, sor_counter, slices, fills,
                   parent_fills, total_filled, total_value, slice_in_hour,
                   hour_slices, urgency, basis, route_num, slice_filled,
                   slice_value, pending, deviations>>

\* one pass of `for hour in range(hours)`: leave, or decide the urgency
generate_hour ==
    /\ variant = "fixed" /\ pc = "hour"
    /\ IF hour >= Hours \/ total_filled >= order_size
       THEN /\ pc' = "final"
            /\ UNCHANGED <<urgency, basis, hour_slices, slice_in_hour>>
       ELSE /\ urgency' = UrgencyOfRate(total_filled, (order_size \div Hours) * (hour + 1))
            /\ basis' = total_filled
            /\ hour_slices' = Min((order_size \div avg_slice_size) \div Hours, SliceCap)
            /\ slice_in_hour' = 0
            /\ pc' = "slice"
    /\ UNCHANGED <<cfgVars, sorVars, finVars, timeVars, prodVars, v1Vars, sor_counter, client_order,
                   algo_parent, slices, snapshots, record_id, fills, parent_fills,
                   total_filled, total_value, hour, route_num, slice_filled,
                   slice_value, pending, deviations>>

\* one pass of `for slice_in_hour in range(hour_slices)`: leave, or create a slice
generate_slice ==
    /\ variant = "fixed" /\ pc = "slice"
    /\ IF slice_in_hour >= hour_slices \/ total_filled >= order_size
       THEN /\ hour' = hour + 1
            /\ pc' = "hour"
            /\ UNCHANGED <<slices, snapshots, record_id, route_num, slice_filled,
                           slice_value, timeVars, deviations>>
       ELSE /\ Len(slices) < MaxSlices
            /\ \E drawn \in SliceSizes(urgency, avg_slice_size), seconds \in SecondsDraws :
                 LET size == Min(drawn, order_size - total_filled)
                     s == [NewOrder(SliceId(Len(slices) + 1), ALGO_ID, 2, size, "PENDING")
                             EXCEPT !.urgency = urgency]
                     slice_time == timedelta(hour, (60 \div hour_slices) * slice_in_hour,
                                             seconds, 0)
                 IN /\ Spend(Departs(seconds # ReferenceDraw(SecondsDraws)))
                    /\ current_time' = slice_time
                    /\ slices' = Append(slices, s)
                    /\ IF detail_level \in {"full", "summary"}
                       THEN /\ snapshots' = add_snapshot(snapshots, s, "NEW")
                            /\ snapshot_times' = Append(snapshot_times, slice_time)
                            /\ record_id' = record_id + 1
                       ELSE UNCHANGED <<snapshots, snapshot_times, record_id>>
            /\ route_num' = 0
            /\ slice_filled' = 0
            /\ slice_value' = 0
            /\ hour' = hour
            /\ pc' = "route"
    /\ UNCHANGED <<cfgVars, sorVars, finVars, prodVars, v1Vars, sor_counter, client_order,
                   algo_parent, fills, parent_fills, total_filled, total_value,
                   slice_in_hour, hour_slices, urgency, basis, pending>>

\* route_time of generate
RouteTime(r) == current_time + timedelta(0, 0, 0, 10 + r * 50)

\* route_size of generate
RouteSize(size, filled, num_routes, r) ==
    Min((size - filled) \div (num_routes - r), size - filled)

\* one pass of `for route_num in range(num_routes)`: leave, skip an empty
\* route, or draw the venue outcome and record the route
generate_route ==
    /\ variant = "fixed" /\ pc = "route"
    /\ LET size == CurSlice.quantity
           num_routes == NumRoutes(urgency)
       IN
       IF route_num >= num_routes \/ slice_filled >= size
       THEN /\ slice_in_hour' = slice_in_hour + 1
            /\ pc' = "slice"
            /\ UNCHANGED <<route_num, snapshots, snapshot_times, record_id, fills,
                           slice_filled, sor_counter, slice_value, pending, deviations>>
       ELSE LET route_size == RouteSize(size, slice_filled, num_routes, route_num) IN
            IF route_size <= 0
            THEN /\ route_num' = route_num + 1
                 /\ pc' = "route"
                 /\ UNCHANGED <<slice_in_hour, snapshots, snapshot_times, record_id, fills,
                                slice_filled, sor_counter, slice_value, pending, deviations>>
            ELSE \E result \in VenueResults, fill_price \in Prices :
                 LET filled_qty == FilledQty(result, route_size)
                     sor == [NewOrder(SorId(sor_counter), CurSlice.order_id, 3, route_size, result)
                               EXCEPT !.filled_quantity = filled_qty,
                                      !.remaining_quantity = route_size - filled_qty,
                                      !.average_price = IF filled_qty > 0
                                                        THEN Ratio(fill_price, 1) ELSE Zero,
                                      !.reason = route_reason(result),
                                      !.urgency = urgency]
                 IN /\ DrawAllowed(result, filled_qty, fill_price)
                    /\ DrawSpent(result, filled_qty, fill_price)
                    /\ IF detail_level = "full"
                       THEN /\ snapshots' = add_snapshot(snapshots, sor, "VENUE_" \o result)
                            /\ snapshot_times' = Append(snapshot_times, RouteTime(route_num))
                            /\ record_id' = record_id + 1
                       ELSE UNCHANGED <<snapshots, snapshot_times, record_id>>
                    /\ IF filled_qty > 0
                       THEN /\ slice_filled' = slice_filled + filled_qty
                            /\ slice_value' = slice_value + filled_qty * fill_price
                            /\ fills' = Append(fills, [slice |-> Len(slices), hour |-> hour, qty |-> filled_qty,
                                                       price |-> fill_price])
                            /\ pending' = [qty |-> filled_qty, price |-> fill_price]
                            /\ route_num' = route_num
                            /\ pc' = "propagate"
                       ELSE /\ route_num' = route_num + 1
                            /\ pc' = "route"
                            /\ UNCHANGED <<slice_filled, slice_value, fills, pending>>
                    /\ sor_counter' = sor_counter + 1
                    /\ UNCHANGED slice_in_hour
    /\ UNCHANGED <<cfgVars, sorVars, finVars, current_time, prodVars, v1Vars, client_order,
                   algo_parent, slices, parent_fills, total_filled, total_value,
                   hour, hour_slices, urgency, basis>>

\* propagate_fill_up_chain(filled_qty, filled_qty * fill_price, slice_order, ...)
propagate_fill_up_chain ==
    /\ variant = "fixed" /\ pc = "propagate"
    /\ LET slice_fill == pending.qty
           slice_val == pending.qty * pending.price
           tf == running_total(total_filled, slice_fill)
           tv == total_value + slice_val
           s == propagate_slice(CurSlice, slice_fill, slice_val)
           a == [propagate_parent(algo_parent, tf, tv, order_size) EXCEPT !.urgency = urgency]
           c == propagate_client(client_order, a, tf, order_size)
       IN /\ total_filled' = tf
          /\ total_value' = tv
          /\ slices' = SetCurSlice(s)
          /\ algo_parent' = a
          /\ client_order' = c
          /\ snapshots' = add_snapshots(snapshots,
                 << <<s, "SLICE_UPDATE">>, <<a, "ALGO_UPDATE">>, <<c, "CLIENT_UPDATE">> >>)
    /\ snapshot_times' = snapshot_times
                            \o <<RouteTime(route_num) + timedelta(0, 0, 0, 10),
                                 RouteTime(route_num) + timedelta(0, 0, 0, 15),
                                 RouteTime(route_num) + timedelta(0, 0, 0, 20)>>
    /\ record_id' = record_id + 3
    /\ pending' = NoFill
    /\ route_num' = route_num + 1
    /\ pc' = "route"
    /\ UNCHANGED <<cfgVars, sorVars, finVars, current_time, prodVars, v1Vars, sor_counter, fills,
                   parent_fills, hour, slice_in_hour, hour_slices, urgency, basis,
                   slice_filled, slice_value, deviations>>

\* seeded fault: the final update moves a filled order to another state
final_state_completed(order) == [order EXCEPT !.state = "COMPLETED"]

\* the final update of generate, on the algo parent and on the client order
final_state(order) == [order EXCEPT !.state = "FILLED"]

\* the final update of generate
generate_final ==
    /\ variant = "fixed" /\ pc = "final"
    /\ IF total_filled >= order_size
       THEN LET a == final_state(algo_parent)
                c == final_state(client_order)
            IN /\ algo_parent' = a
               /\ client_order' = c
               /\ snapshots' = add_snapshots(snapshots,
                      << <<a, "COMPLETED">>, <<c, "COMPLETED">> >>)
               /\ snapshot_times' = snapshot_times
                                       \o <<timedelta(Hours, 0, 0, 0), timedelta(Hours, 0, 0, 0)>>
               /\ record_id' = record_id + 2
       ELSE UNCHANGED <<algo_parent, client_order, snapshots, snapshot_times, record_id>>
    /\ pc' = "done"
    /\ UNCHANGED <<cfgVars, sorVars, finVars, current_time, prodVars, v1Vars, sor_counter, slices, fills,
                   parent_fills, total_filled, total_value, hour, slice_in_hour,
                   hour_slices, urgency, basis, route_num, slice_filled, slice_value,
                   pending, deviations>>

----------------------------------------------------------------------------
(* ProductionVWAPSimulator  (data/generate_production_vwap.py)             *)

\* the participation curve of calculate_vwap_schedule, in percent
Participation == <<15, 10, 8, 7, 8, 10, 12, 30>>

RECURSIVE SumTo(_, _)
SumTo(f, n) == IF n = 0 THEN 0 ELSE f[n] + SumTo(f, n - 1)

\* calculate_vwap_schedule(total_quantity, hours = 7)
calculate_vwap_schedule(total) ==
    LET raw == [i \in 1..Hours |-> (total * Participation[i]) \div 100]
    IN [i \in 1..Hours |-> IF i < Hours THEN raw[i] ELSE total - SumTo(raw, Hours - 1)]

\* expected fill by the end of hour h (0-based): sum(self.schedule[:hour+1])
ExpectedBy(total, h) == SumTo(calculate_vwap_schedule(total), h + 1)

\* seeded fault: a rate of exactly 70 is classified Critical
calculate_urgency_strict(h, filled) ==
    LET expected == ExpectedBy(order_size, h) IN
    IF expected <= 0 \/ filled * 100 >= 95 * expected THEN "PASSIVE"
    ELSE IF filled * 100 >= 85 * expected THEN "NORMAL"
    ELSE IF filled * 100 > 70 * expected THEN "URGENT"
    ELSE "CRITICAL"

\* calculate_urgency: the urgency part of the result
calculate_urgency(h, filled) ==
    LET expected == ExpectedBy(order_size, h) IN
    IF expected <= 0 \/ filled * 100 >= 95 * expected THEN "PASSIVE"
    ELSE IF filled * 100 >= 85 * expected THEN "NORMAL"
    ELSE IF filled * 100 >= 70 * expected THEN "URGENT"
    ELSE "CRITICAL"

\* seeded fault: an Urgent hour sends limit orders
SlicePlan_limit(urg, hour_target, shortfall, left) ==
    IF urg = "CRITICAL" THEN <<Min(shortfall, left), "SWEEP", 1>>
    ELSE IF urg = "URGENT" THEN <<Min(hour_target \div 2, left), "LIMIT_IOC", 3>>
    ELSE IF urg = "NORMAL" THEN <<hour_target \div 4, "LIMIT_IOC", 4>>
    ELSE <<hour_target \div 6, "POST_ONLY", 6>>

\* the slice plan of generate_execution by urgency: <<slice_size, instruction, num_slices>>
SlicePlan(urg, hour_target, shortfall, left) ==
    IF urg = "CRITICAL" THEN <<Min(shortfall, left), "SWEEP", 1>>
    ELSE IF urg = "URGENT" THEN <<Min(hour_target \div 2, left), "MARKET_IOC", 3>>
    ELSE IF urg = "NORMAL" THEN <<hour_target \div 4, "LIMIT_IOC", 4>>
    ELSE <<hour_target \div 6, "POST_ONLY", 6>>

\* venues of execute_sor by instruction
SorVenues(instr) ==
    IF instr = "SWEEP" THEN <<"NYSE", "NASDAQ", "ARCA", "BATS", "DARK">>
    ELSE IF instr = "MARKET_IOC" THEN <<"NYSE", "NASDAQ", "ARCA">>
    ELSE IF instr = "LIMIT_IOC" THEN <<"DARK", "NYSE">>
    ELSE <<"ARCA">>

\* what a venue may answer in execute_sor, by instruction; PENDING is no answer
SorResults(instr) ==
    IF instr = "SWEEP" THEN {"FILLED"}
    ELSE IF instr = "MARKET_IOC" THEN {"FILLED", "FADE"}
    ELSE IF instr = "LIMIT_IOC" THEN {"FILLED", "PARTIAL", "PENDING"}
    ELSE {"FILLED", "PENDING"}

\* min(urgency.value, Urgency.CRITICAL.value): the smaller string
StrMin(a, b) ==
    LET rank == [u \in {"CRITICAL", "NORMAL", "PASSIVE", "URGENT"} |->
                   IF u = "CRITICAL" THEN 1 ELSE IF u = "NORMAL" THEN 2
                   ELSE IF u = "PASSIVE" THEN 3 ELSE 4]
    IN IF rank[a] <= rank[b] THEN a ELSE b

\* update_parent_orders: the algo parent
update_parent(parent, filled, value, size) ==
    [parent EXCEPT
        !.filled_quantity = filled,
        !.remaining_quantity = size - filled,
        !.average_price = IF filled > 0 THEN Ratio(value, filled) ELSE Zero,
        !.state = IF filled >= size THEN "FILLED" ELSE "WORKING"]

\* seeded fault: the client keeps its own average_price
update_client_own_average(client, parent, filled, size) ==
    [client EXCEPT
        !.filled_quantity = filled,
        !.remaining_quantity = size - filled,
        !.state = parent.state]

\* update_parent_orders: the client order
update_client(client, parent, filled, size) ==
    [client EXCEPT
        !.filled_quantity = filled,
        !.remaining_quantity = size - filled,
        !.average_price = parent.average_price,
        !.state = parent.state]

\* the slice update of generate_execution after execute_sor returned
complete_slice(slice_order, filled, value) ==
    [slice_order EXCEPT
        !.filled_quantity = filled,
        !.remaining_quantity = slice_order.quantity - filled,
        !.average_price = IF filled > 0 THEN Ratio(value, filled) ELSE Zero,
        !.state = IF filled >= slice_order.quantity THEN "FILLED" ELSE "PARTIAL"]

\* generate_execution up to the hour loop
generate_execution_orders ==
    /\ variant = "prod" /\ pc = "start"
    /\ LET c0 == NewOrder(CLIENT_ID, <<"NONE", 0>>, 0, order_size, "PENDING")
           c1 == [c0 EXCEPT !.state = "ACCEPTED"]
           a0 == NewOrder(ALGO_ID, CLIENT_ID, 1, order_size, "WORKING")
       IN /\ client_order' = c1
          /\ algo_parent' = a0
          /\ snapshots' = add_snapshots(snapshots,
                 << <<c0, "NEW">>, <<c1, "ACCEPTED">>, <<a0, "NEW">> >>)
    /\ current_time' = timedelta(0, 0, 1, 0)
    /\ snapshot_times' = snapshot_times
                            \o <<0, timedelta(0, 0, 1, 0), timedelta(0, 0, 1, 0)>>
    /\ record_id' = record_id + 3
    /\ hour' = 0
    /\ sor_counter' = 300001
    /\ pc' = "hour"
    /\ UNCHANGED <<cfgVars, sorVars, finVars, prodVars, v1Vars, slices, fills, parent_fills,
                   total_filled, total_value, slice_in_hour, hour_slices, urgency,
                   basis, route_num, slice_filled, slice_value, pending, deviations>>

\* one pass of `for hour in range(len(self.schedule))`
generate_execution_hour ==
    /\ variant = "prod" /\ pc = "hour"
    /\ IF hour >= Hours \/ total_filled >= order_size
       THEN /\ pc' = "done"
            /\ UNCHANGED <<urgency, basis, hour_slices, slice_in_hour, prodVars,
                           current_time>>
       ELSE LET urg == calculate_urgency(hour, total_filled)
                shortfall == ExpectedBy(order_size, hour) - total_filled
                plan == SlicePlan(urg, calculate_vwap_schedule(order_size)[hour + 1],
                                  shortfall, order_size - total_filled)
            IN /\ urgency' = urg
               /\ basis' = total_filled
               /\ slice_size' = plan[1]
               /\ instruction' = plan[2]
               /\ hour_slices' = plan[3]
               /\ hour_filled' = 0
               /\ slice_in_hour' = 0
               /\ current_time' = timedelta(hour, 0, 0, 0)
               /\ pc' = "slice"
    /\ UNCHANGED <<cfgVars, sorVars, finVars, snapshot_times, v1Vars, sor_counter, client_order, algo_parent, slices,
                   snapshots, record_id, fills, parent_fills, total_filled,
                   total_value, hour, route_num, slice_filled, slice_value, pending,
                   deviations>>

\* one pass of `for slice_num in range(num_slices)`: leave, or create the slice
generate_execution_slice ==
    /\ variant = "prod" /\ pc = "slice"
    /\ IF \/ slice_in_hour >= hour_slices
          \/ total_filled >= order_size
          \/ hour_filled >= calculate_vwap_schedule(order_size)[hour + 1]
       THEN /\ hour' = hour + 1
            /\ pc' = "hour"
            /\ UNCHANGED <<slices, snapshots, record_id, route_num, slice_filled,
                           slice_value, timeVars, deviations>>
       ELSE /\ Len(slices) < MaxProdSlices
            /\ \E now \in NowMilliseconds :
               LET actual_slice_size == Min(slice_size, order_size - total_filled)
                   s == [NewOrder(SliceId(Len(slices) + 1), ALGO_ID, 2,
                                  actual_slice_size, "PENDING")
                           EXCEPT !.urgency = urgency, !.instruction = instruction]
                   slice_time == timedelta(hour, (60 \div hour_slices) * slice_in_hour,
                                           0, now)
               IN /\ Spend(Departs(now # ReferenceDraw(NowMilliseconds)))
                  /\ slices' = Append(slices, s)
                  /\ snapshots' = add_snapshot(snapshots, s, "NEW")
                  /\ snapshot_times' = Append(snapshot_times, slice_time)
                  /\ current_time' = slice_time + timedelta(0, 0, 0, 10)
            /\ record_id' = record_id + 1
            /\ route_num' = 0
            /\ slice_filled' = 0
            /\ slice_value' = 0
            /\ hour' = hour
            /\ pc' = "route"
    /\ UNCHANGED <<cfgVars, sorVars, finVars, prodVars, v1Vars, sor_counter, client_order, algo_parent,
                   fills, parent_fills, total_filled, total_value, slice_in_hour,
                   hour_slices, urgency, basis, pending>>

\* one pass of `for venue in venues` of execute_sor: return, or route to the venue
execute_sor ==
    /\ variant = "prod" /\ pc = "route"
    /\ LET target_qty == CurSlice.quantity
           venues == SorVenues(instruction)
       IN
       IF route_num >= Len(venues) \/ slice_filled >= target_qty
       THEN /\ pc' = "complete"
            /\ UNCHANGED <<route_num, snapshots, snapshot_times, record_id, fills,
                           slice_filled, slice_value, deviations>>
       ELSE \E result \in SorResults(instruction), fill_price \in Prices :
            LET venue_qty == target_qty \div Len(venues)
                got == IF result = "FILLED" THEN venue_qty
                       ELSE IF result = "PARTIAL" THEN venue_qty \div 2 ELSE 0
                sor0 == [NewOrder(SorId(sor_counter + route_num), CurSlice.order_id, 3,
                                  venue_qty, "PENDING")
                           EXCEPT !.instruction = instruction]
                sor1 == IF result \in {"FILLED", "PARTIAL"}
                        THEN [sor0 EXCEPT !.filled_quantity = got,
                                          !.average_price = Ratio(fill_price, 1),
                                          !.state = result]
                        ELSE [sor0 EXCEPT !.state = result]
                recs == << <<sor0, "NEW">> >>
                          \o (IF result = "FADE"
                              THEN << <<[sor1 EXCEPT !.reason = "fade_reason"], "VENUE_FADE">> >>
                              ELSE <<>>)
                          \o << <<sor1, "VENUE_" \o sor1.state>> >>
                timestamp == current_time + route_num * timedelta(0, 0, 0, 30)
                times == <<timestamp>>
                           \o (IF result = "FADE"
                               THEN <<timestamp + timedelta(0, 0, 0, 20)>> ELSE <<>>)
                           \o <<timestamp + timedelta(0, 0, 0, 30)>>
            IN /\ DrawAllowed(result, IF result \in {"FILLED", "PARTIAL"} THEN 1 ELSE 0, fill_price)
               /\ DrawSpent(result, IF result \in {"FILLED", "PARTIAL"} THEN 1 ELSE 0, fill_price)
               /\ snapshots' = add_snapshots(snapshots, recs)
               /\ snapshot_times' = snapshot_times \o times
               /\ record_id' = record_id + Len(recs)
               /\ IF result \in {"FILLED", "PARTIAL"}
                  THEN /\ slice_filled' = slice_filled + got
                       /\ slice_value' = slice_value + got * fill_price
                       /\ fills' = IF got > 0
                                   THEN Append(fills, [slice |-> Len(slices), hour |-> hour, qty |-> got,
                                                       price |-> fill_price])
                                   ELSE fills
                  ELSE UNCHANGED <<slice_filled, slice_value, fills>>
               /\ route_num' = route_num + 1
               /\ pc' = "route"
    /\ UNCHANGED <<cfgVars, sorVars, finVars, current_time, prodVars, v1Vars, sor_counter, client_order, algo_parent,
                   slices, parent_fills, total_filled, total_value, hour,
                   slice_in_hour, hour_slices, urgency, basis, pending>>

\* generate_execution after execute_sor returned: the slice update, the
\* running totals, update_parent_orders and the in-hour escalation
generate_execution_complete ==
    /\ variant = "prod" /\ pc = "complete"
    /\ LET s == complete_slice(CurSlice, slice_filled, slice_value)
           tf == total_filled + slice_filled
           tv == total_value + slice_value
           hf == hour_filled + slice_filled
           a == update_parent(algo_parent, tf, tv, order_size)
           c == update_client(client_order, a, tf, order_size)
           hour_target == calculate_vwap_schedule(order_size)[hour + 1]
       IN /\ slices' = SetCurSlice(s)
          /\ total_filled' = tf
          /\ total_value' = tv
          /\ hour_filled' = hf
          /\ algo_parent' = a
          /\ client_order' = c
          /\ snapshots' = add_snapshots(snapshots,
                 << <<[s EXCEPT !.urgency = urgency], "SLICE_COMPLETE">>,
                    <<[a EXCEPT !.urgency = urgency], "ALGO_UPDATE">>,
                    <<c, "CLIENT_UPDATE">> >>)
          /\ current_time' = current_time + timedelta(0, 0, 0, 50)
          /\ snapshot_times' = snapshot_times
                                  \o [i \in 1..3 |-> current_time + timedelta(0, 0, 0, 50)]
          /\ urgency' = IF hf * 2 < hour_target /\ slice_in_hour > hour_slices \div 2
                        THEN StrMin(urgency, "CRITICAL") ELSE urgency
    /\ record_id' = record_id + 3
    /\ sor_counter' = sor_counter + 10
    /\ slice_in_hour' = slice_in_hour + 1
    /\ pc' = "slice"
    /\ UNCHANGED <<cfgVars, sorVars, finVars, v1Vars, instruction, slice_size, fills, parent_fills, hour,
                   hour_slices, basis, route_num, slice_filled, slice_value, pending,
                   deviations>>

----------------------------------------------------------------------------
(* Simulator v2  (scripts/trading_system_simulator_v2.py)                  *)

\* number of slices run_vwap_simulation sends (len(slice_sizes))
NumSlicesV2 == 3

\* slice_sizes of run_vwap_simulation: three equal slices making up the
\* order (30000 as 3 x 10000 there; the same shape on an order of 30 here,
\* which keeps value * 10000 within TLC's integers)
SliceSizesV2 == [i \in 1..NumSlicesV2 |-> order_size \div NumSlicesV2]

\* min(3, len(self.venues)) venues are selected for every slice
VenuesPerSliceV2 == 3

\* the nearest integer to n / d, a tie going to the even one
RoundDiv(n, d) ==
    LET q == n \div d
        r == n % d
    IN IF 2 * r < d THEN q
       ELSE IF 2 * r > d THEN q + 1
       ELSE IF q % 2 = 0 THEN q ELSE q + 1

\* round(value / qty, 4): a whole number of ten-thousandths
Round4(value, qty) == <<RoundDiv(value * 10000, qty), 10000>>

\* venue_qty of SmartOrderRouter.route_order for venue idx (0-based) of n
VenueQtyV2(qty, n, idx) == qty \div n + (IF idx = n - 1 THEN qty % n ELSE 0)

\* seeded fault: the SOR hands the child back in state ACCEPTED
sor_complete_accepted(child, filled, value) ==
    [child EXCEPT
        !.filled_quantity = filled,
        !.remaining_quantity = child.quantity - filled,
        !.average_price = IF filled > 0 THEN Round4(value, filled) ELSE Zero,
        !.state = "ACCEPTED"]

\* the algo child update at the end of SmartOrderRouter.route_order
sor_complete(child, filled, value) ==
    [child EXCEPT
        !.filled_quantity = filled,
        !.remaining_quantity = child.quantity - filled,
        !.average_price = IF filled > 0 THEN Round4(value, filled) ELSE Zero,
        !.state = IF filled >= child.quantity THEN "FILLED" ELSE "PARTIALLY_FILLED"]

\* the child update of AlgoEngine._process_fills
process_child(child, total_qty, value) ==
    [child EXCEPT
        !.filled_quantity = total_qty,
        !.remaining_quantity = child.quantity - total_qty,
        !.average_price = IF total_qty > 0 THEN Round4(value, total_qty) ELSE Round4(0, 1),
        !.state = IF total_qty >= child.quantity THEN "FILLED" ELSE "PARTIALLY_FILLED"]

\* seeded fault: the parent's filled_quantity assigned, not accumulated
process_parent_assigned(parent, total_qty, all_fills) ==
    [parent EXCEPT
        !.filled_quantity = total_qty,
        !.remaining_quantity = parent.quantity - total_qty,
        !.average_price = IF total_qty > 0 THEN Round4(SumValue(all_fills), total_qty) ELSE Zero,
        !.state = IF total_qty >= parent.quantity THEN "FILLED" ELSE "WORKING"]

\* the parent update of AlgoEngine._process_fills; all_fills is parent_data['fills']
process_parent(parent, total_qty, all_fills) ==
    LET f == parent.filled_quantity + total_qty IN
    [parent EXCEPT
        !.filled_quantity = f,
        !.remaining_quantity = parent.quantity - f,
        !.average_price = IF f > 0 THEN Round4(SumValue(all_fills), f) ELSE Zero,
        !.state = IF f >= parent.quantity THEN "FILLED" ELSE "WORKING"]

\* seeded fault: the client is Filled as soon as anything is filled
process_client_any_fill(client, parent) ==
    [client EXCEPT
        !.filled_quantity = parent.filled_quantity,
        !.remaining_quantity = parent.remaining_quantity,
        !.average_price = parent.average_price,
        !.state = IF parent.filled_quantity > 0 THEN "FILLED" ELSE "WORKING"]

\* the client update of AlgoEngine._process_fills
process_client(client, parent) ==
    [client EXCEPT
        !.filled_quantity = parent.filled_quantity,
        !.remaining_quantity = parent.remaining_quantity,
        !.average_price = parent.average_price,
        !.state = IF parent.state = "FILLED" THEN "FILLED" ELSE "WORKING"]

\* run_vwap_simulation: Client.send_order, then AlgoEngine.receive_order
send_order_v2 ==
    /\ variant = "v2" /\ pc = "start"
    /\ LET c0 == NewOrder(CLIENT_ID, <<"NONE", 0>>, 0, order_size, "PENDING")
           c1 == [c0 EXCEPT !.state = "ACCEPTED"]
           a0 == NewOrder(<<"ALGO", 1000>>, CLIENT_ID, 1, order_size, "WORKING")
       IN /\ client_order' = c1
          /\ algo_parent' = a0
          /\ snapshots' = add_snapshots(snapshots,
                 << <<c0, "NEW">>, <<c1, "ACCEPTED">>, <<a0, "NEW">> >>)
    /\ record_id' = record_id + 3
    /\ sor_counter' = 5000
    /\ slice_in_hour' = 0
    /\ pc' = "slice"
    /\ UNCHANGED <<cfgVars, sorVars, finVars, timeVars, prodVars, v1Vars, slices, fills, parent_fills,
                   total_filled, total_value, hour, hour_slices, urgency, basis,
                   route_num, slice_filled, slice_value, pending, deviations>>

\* one pass of `for slice_num, slice_size in enumerate(slice_sizes, 1)`:
\* AlgoEngine.generate_child_slice up to the venue loop of route_order
generate_child_slice_v2 ==
    /\ variant = "v2" /\ pc = "slice"
    /\ IF slice_in_hour >= Len(SliceSizesV2)
       THEN /\ pc' = "done"
            /\ UNCHANGED <<slices, snapshots, record_id, route_num, slice_filled, slice_value>>
       ELSE /\ Len(slices) < MaxSlices
            /\ LET s0 == NewOrder(<<"SLICE", 1001 + slice_in_hour>>, algo_parent.order_id, 2,
                                  SliceSizesV2[slice_in_hour + 1], "PENDING")
                   s1 == [s0 EXCEPT !.state = "ACCEPTED"]
                   s2 == [s0 EXCEPT !.state = "WORKING"]
               IN /\ slices' = Append(slices, s2)
                  /\ snapshots' = add_snapshots(snapshots,
                         << <<s0, "NEW">>, <<s1, "ACCEPTED">>, <<s2, "SOR_RECEIVED">> >>)
            /\ record_id' = record_id + 3
            /\ route_num' = 0
            /\ slice_filled' = 0
            /\ slice_value' = 0
            /\ pc' = "route"
    /\ UNCHANGED <<cfgVars, sorVars, finVars, timeVars, prodVars, v1Vars, sor_counter, client_order, algo_parent,
                   fills, parent_fills, total_filled, total_value, hour, slice_in_hour,
                   hour_slices, urgency, basis, pending, deviations>>

\* one pass of `for idx, venue_name in enumerate(selected_venues)` of
\* SmartOrderRouter.route_order, Venue.receive_order included
route_order_v2 ==
    /\ variant = "v2" /\ pc = "route"
    /\ IF route_num >= VenuesPerSliceV2
       THEN /\ pc' = "complete"
            /\ UNCHANGED <<route_num, snapshots, record_id, fills, slice_filled,
                           slice_value, sor_counter, deviations>>
       ELSE \E fill_price \in Prices :
            LET venue_qty == VenueQtyV2(CurSlice.quantity, VenuesPerSliceV2, route_num)
                o0 == NewOrder(SorId(sor_counter), CurSlice.order_id, 3, venue_qty, "PENDING")
                o1 == [o0 EXCEPT !.state = "ACCEPTED"]
                o2 == [o0 EXCEPT !.filled_quantity = venue_qty,
                                 !.remaining_quantity = 0,
                                 !.average_price = Round4(fill_price, 1),
                                 !.state = "FILLED"]
                o3 == [o2 EXCEPT !.filled_quantity = venue_qty,
                                 !.remaining_quantity = 0,
                                 !.average_price = Ratio(fill_price, 1),
                                 !.state = "FILLED"]
            IN /\ DrawAllowed("FILLED", venue_qty, fill_price)
               /\ DrawSpent("FILLED", venue_qty, fill_price)
               /\ snapshots' = add_snapshots(snapshots,
                      << <<o0, "NEW">>, <<o0, "VENUE_PENDING">>, <<o1, "VENUE_ACCEPTED">>,
                         <<o2, "VENUE_FILLED">>, <<o3, "SOR_FILLED">> >>)
               /\ record_id' = record_id + 5
               /\ sor_counter' = sor_counter + 1
               /\ slice_filled' = slice_filled + venue_qty
               /\ slice_value' = slice_value + venue_qty * fill_price
               /\ fills' = Append(fills, [slice |-> Len(slices), hour |-> hour, qty |-> venue_qty,
                                          price |-> fill_price])
               /\ route_num' = route_num + 1
               /\ pc' = "route"
    /\ UNCHANGED <<cfgVars, sorVars, finVars, timeVars, prodVars, v1Vars, client_order, algo_parent, slices,
                   parent_fills, total_filled, total_value, hour, slice_in_hour,
                   hour_slices, urgency, basis, pending>>

\* the end of SmartOrderRouter.route_order (SOR_COMPLETE), then
\* AlgoEngine._process_fills(child, fills, timestamp)
process_fills_v2 ==
    /\ variant = "v2" /\ pc = "complete"
    /\ LET new_fills == FillsOf(Len(slices))
           sc == sor_complete(CurSlice, slice_filled, slice_value)
           total_qty == SumQty(new_fills)
           s == process_child(sc, total_qty, SumValue(new_fills))
           all_fills == parent_fills \o new_fills
           a == process_parent(algo_parent, total_qty, all_fills)
           c == process_client(client_order, a)
       IN /\ slices' = SetCurSlice(s)
          /\ parent_fills' = all_fills
          /\ algo_parent' = a
          /\ client_order' = c
          /\ snapshots' = add_snapshots(snapshots,
                 << <<sc, "SOR_COMPLETE">>, <<s, "ALGO_SLICE_FILLED">>,
                    <<a, "ALGO_PARENT_UPDATE">>, <<c, "CLIENT_UPDATE">> >>)
    /\ record_id' = record_id + 4
    /\ slice_in_hour' = slice_in_hour + 1
    /\ pc' = "slice"
    /\ UNCHANGED <<cfgVars, sorVars, finVars, timeVars, prodVars, v1Vars, sor_counter, fills, total_filled,
                   total_value, hour, hour_slices, urgency, basis, route_num,
                   slice_filled, slice_value, pending, deviations>>

----------------------------------------------------------------------------
(* Simulator v1  (scripts/trading_system_simulator.py)                     *)

\* vwap_profile[:5] of run_vwap_simulation, in percent
ProfileV1 == <<12, 9, 8, 6, 7>>
\* slices_per_hour = 2
SlicesPerHourV1 == 2
\* the smallest venue order of SmartOrderRouter.route_order
MinVenueQty == 100
\* the venue counts random.randint(1, 3) draws
VenueCounts == 1..3
\* the extremes and the middle of random.randint(-100, 100)
VenueJitter == {-100, 0, 100}

\* venue_qty of SmartOrderRouter.route_order
VenueQtyV1(left, n, jitter) == Min(Max(left \div n + jitter, MinVenueQty), left)

\* the child update of AlgoEngine.receive_fill
receive_fill_child(child, fill_qty, fill_price) ==
    LET f == child.filled_quantity + fill_qty
        prev_value == RatTimes(child.average_price, f - fill_qty)
    IN [child EXCEPT
        !.filled_quantity = f,
        !.remaining_quantity = child.quantity - f,
        !.average_price = IF f > 0 THEN Ratio(prev_value + fill_price * fill_qty, f) ELSE @,
        !.state = IF child.quantity - f = 0 THEN "FILLED" ELSE "PARTIAL"]

\* seeded fault: the parent's average taken from the newest fill alone
receive_fill_parent_newest(parent, fill_qty, all_fills) ==
    LET f == parent.filled_quantity + fill_qty
        newest == all_fills[Len(all_fills)]
    IN [parent EXCEPT
        !.filled_quantity = f,
        !.remaining_quantity = parent.quantity - f,
        !.average_price = IF f > 0 THEN Ratio(newest.price * f, f) ELSE Zero,
        !.state = IF parent.quantity - f = 0 THEN "FILLED" ELSE "WORKING"]

\* the parent update of AlgoEngine.receive_fill; all_fills is parent_data['fills']
receive_fill_parent(parent, fill_qty, all_fills) ==
    LET f == parent.filled_quantity + fill_qty IN
    [parent EXCEPT
        !.filled_quantity = f,
        !.remaining_quantity = parent.quantity - f,
        !.average_price = IF f > 0 THEN Ratio(SumValue(all_fills), f) ELSE Zero,
        !.state = IF parent.quantity - f = 0 THEN "FILLED" ELSE "WORKING"]

\* the client update of AlgoEngine.receive_fill
receive_fill_client(client, parent) ==
    [client EXCEPT
        !.filled_quantity = parent.filled_quantity,
        !.remaining_quantity = parent.remaining_quantity,
        !.average_price = parent.average_price,
        !.state = parent.state]

\* Client.receive_fill_update(order_id, filled_qty, avg_price, state, timestamp)
receive_fill_update(client, filled_qty, avg_price, st) ==
    [client EXCEPT
        !.filled_quantity = filled_qty,
        !.remaining_quantity = client.quantity - filled_qty,
        !.average_price = avg_price,
        !.state = st]

\* run_vwap_simulation: Client.send_order, then AlgoEngine.receive_order
send_order_v1 ==
    /\ variant = "v1" /\ pc = "start"
    /\ LET c0 == NewOrder(CLIENT_ID, <<"NONE", 0>>, 0, order_size, "PENDING")
           c1 == [c0 EXCEPT !.state = "ACCEPTED"]
           a0 == NewOrder(<<"ALGO", 1000>>, CLIENT_ID, 1, order_size, "WORKING")
       IN /\ client_order' = c1
          /\ algo_parent' = a0
          /\ snapshots' = add_snapshots(snapshots,
                 << <<c0, "NEW">>, <<c1, "ACCEPTED">>, <<a0, "NEW">> >>)
    /\ record_id' = record_id + 3
    /\ sor_counter' = 5000
    /\ hour' = 0
    /\ pc' = "hour"
    /\ UNCHANGED <<cfgVars, sorVars, finVars, timeVars, prodVars, v1Vars, slices, fills, parent_fills,
                   total_filled, total_value, slice_in_hour, hour_slices, urgency,
                   basis, route_num, slice_filled, slice_value, pending, deviations>>

\* one pass of `for hour_idx, participation in enumerate(vwap_profile[:5])`
run_hour_v1 ==
    /\ variant = "v1" /\ pc = "hour"
    /\ IF hour >= Len(ProfileV1) \/ total_filled >= order_size
       THEN /\ pc' = "done"
            /\ UNCHANGED <<hour_slices, slice_in_hour>>
       ELSE /\ hour_slices' = SlicesPerHourV1
            /\ slice_in_hour' = 0
            /\ pc' = "slice"
    /\ UNCHANGED <<cfgVars, sorVars, finVars, timeVars, prodVars, v1Vars, sor_counter, client_order, algo_parent,
                   slices, snapshots, record_id, fills, parent_fills, total_filled,
                   total_value, hour, urgency, basis, route_num, slice_filled,
                   slice_value, pending, deviations>>

\* one pass of `for slice_idx in range(slices_per_hour)`: leave, skip an
\* empty slice, or AlgoEngine.generate_child_slice and the venue draw of
\* SmartOrderRouter.route_order
generate_child_slice_v1 ==
    /\ variant = "v1" /\ pc = "slice"
    /\ LET hour_quantity == (order_size * ProfileV1[hour + 1]) \div 100
           slice_qty == Min(hour_quantity \div SlicesPerHourV1, order_size - total_filled)
       IN
       IF slice_in_hour >= hour_slices \/ total_filled >= order_size
       THEN /\ hour' = hour + 1
            /\ pc' = "hour"
            /\ UNCHANGED <<slices, snapshots, record_id, route_num, routed, num_venues,
                           slice_in_hour, deviations>>
       ELSE IF slice_qty <= 0
       THEN /\ slice_in_hour' = slice_in_hour + 1
            /\ pc' = "slice"
            /\ UNCHANGED <<slices, snapshots, record_id, route_num, routed, num_venues, hour,
                           deviations>>
       ELSE /\ Len(slices) < MaxSlices
            /\ LET child == NewOrder(<<"ALGOCHILD", 1001 + Len(slices)>>,
                                     algo_parent.order_id, 2, slice_qty, "PENDING")
               IN /\ slices' = Append(slices, child)
                  /\ snapshots' = add_snapshot(snapshots, child, "NEW")
            /\ record_id' = record_id + 1
            /\ \E n \in VenueCounts : num_venues' = n /\ Spend(Departs(n # ReferenceVenues))
            /\ routed' = <<>>
            /\ route_num' = 0
            /\ pc' = "route"
            /\ UNCHANGED <<hour, slice_in_hour>>
    /\ UNCHANGED <<cfgVars, sorVars, finVars, timeVars, prodVars, sor_counter, client_order, algo_parent, fills,
                   parent_fills, total_filled, total_value, hour_slices, urgency, basis,
                   slice_filled, slice_value, pending>>

\* quantity route_order has not yet given to a venue
Unrouted == CurSlice.quantity - SumQty([i \in 1..Len(routed) |-> [qty |-> routed[i].quantity]])

\* one pass of `for venue in selected_venues` of SmartOrderRouter.route_order
route_order_v1 ==
    /\ variant = "v1" /\ pc = "route"
    /\ IF route_num >= num_venues \/ Unrouted <= 0
       THEN /\ route_num' = 0
            /\ pc' = "execute"
            /\ UNCHANGED <<routed, snapshots, record_id, sor_counter, deviations>>
       ELSE \E jitter \in VenueJitter :
            LET venue_qty == VenueQtyV1(Unrouted, num_venues, jitter)
                sor_order == NewOrder(SorId(sor_counter), CurSlice.order_id, 3, venue_qty, "SENT")
            IN /\ Spend(Departs(jitter # 0))
               /\ sor_counter' = sor_counter + 1
               /\ snapshots' = add_snapshot(snapshots, sor_order, "NEW")
               /\ record_id' = record_id + 1
               /\ routed' = Append(routed, sor_order)
               /\ route_num' = route_num + 1
               /\ pc' = "route"
    /\ UNCHANGED <<cfgVars, sorVars, finVars, timeVars, prodVars, num_venues, client_order, algo_parent, slices,
                   fills, parent_fills, total_filled, total_value, hour, slice_in_hour,
                   hour_slices, urgency, basis, slice_filled, slice_value, pending>>

\* one pass of `for sor_order in sor_orders`, up to the cascade:
\* Venue.execute_order and SmartOrderRouter.receive_venue_fill
receive_venue_fill ==
    /\ variant = "v1" /\ pc = "execute"
    /\ IF route_num >= Len(routed)
       THEN /\ slice_in_hour' = slice_in_hour + 1
            /\ pc' = "slice"
            /\ UNCHANGED <<snapshots, record_id, fills, pending, deviations>>
       ELSE \E fill_price \in Prices :
            LET order == routed[route_num + 1]
                filled_sor == [order EXCEPT !.filled_quantity = order.quantity,
                                            !.remaining_quantity = 0,
                                            !.average_price = Ratio(fill_price, 1),
                                            !.state = "FILLED"]
            IN /\ DrawAllowed("FILLED", order.quantity, fill_price)
               /\ DrawSpent("FILLED", order.quantity, fill_price)
               /\ snapshots' = add_snapshot(snapshots, filled_sor, "FILL")
               /\ record_id' = record_id + 1
               /\ fills' = Append(fills, [slice |-> Len(slices), hour |-> hour,
                                          qty |-> order.quantity, price |-> fill_price])
               /\ pending' = [qty |-> order.quantity, price |-> fill_price]
               /\ pc' = "propagate"
               /\ UNCHANGED slice_in_hour
    /\ UNCHANGED <<cfgVars, sorVars, finVars, timeVars, prodVars, v1Vars, sor_counter, client_order, algo_parent,
                   slices, parent_fills, total_filled, total_value, hour, hour_slices,
                   urgency, basis, route_num, slice_filled, slice_value>>

\* the rest of the pass: AlgoEngine.receive_fill, then
\* Client.receive_fill_update with the client order it returned
receive_fill ==
    /\ variant = "v1" /\ pc = "propagate"
    /\ LET all_fills == Append(parent_fills, [qty |-> pending.qty, price |-> pending.price])
           child == receive_fill_child(CurSlice, pending.qty, pending.price)
           parent == receive_fill_parent(algo_parent, pending.qty, all_fills)
           updated_client_order == receive_fill_client(client_order, parent)
           c == receive_fill_update(updated_client_order,
                                    updated_client_order.filled_quantity,
                                    updated_client_order.average_price,
                                    updated_client_order.state)
       IN /\ slices' = SetCurSlice(child)
          /\ parent_fills' = all_fills
          /\ algo_parent' = parent
          /\ client_order' = c
          /\ snapshots' = add_snapshots(snapshots,
                 << <<child, "FILL">>, <<parent, "FILL">>,
                    <<updated_client_order, "FILL">>, <<c, "FILL_UPDATE">> >>)
          /\ total_filled' = updated_client_order.filled_quantity
    /\ record_id' = record_id + 4
    /\ pending' = NoFill
    /\ route_num' = route_num + 1
    /\ pc' = "execute"
    /\ UNCHANGED <<cfgVars, sorVars, finVars, timeVars, prodVars, v1Vars, sor_counter, fills, total_value, hour,
                   slice_in_hour, hour_slices, urgency, basis, slice_filled,
                   slice_value, deviations>>

----------------------------------------------------------------------------
(* TickDatabaseGenerator  (scripts/generate_tick_database.py)              *)

\* vwap_profile of generate_complete_flow, in percent
ProfileTickdb == <<12, 9, 8, 6, 7, 8, 9, 10, 15, 16>>
\* the slice counts random.randint(2, 4) draws
SlicesPerHourTickdb == 2..4
\* the extremes and the middle of random.randint(-500, 500)
SliceJitter == {-500, 0, 500}

\* the algo child update of generate_complete_flow
flow_child(child, filled, value) ==
    [child EXCEPT
        !.filled_quantity = filled,
        !.remaining_quantity = child.quantity - filled,
        !.average_price = IF filled > 0 THEN Ratio(value, filled) ELSE Zero,
        !.state = IF filled >= child.quantity THEN "FILLED" ELSE "PARTIAL"]

\* the algo parent and the client update of generate_complete_flow: the
\* same assignments on either dict
flow_parent(order, filled, all_fills) ==
    [order EXCEPT
        !.filled_quantity = filled,
        !.remaining_quantity = order_size - filled,
        !.average_price = IF filled > 0 THEN Ratio(SumValue(all_fills), filled) ELSE Zero,
        !.state = IF filled < order_size THEN "WORKING" ELSE "FILLED"]

\* seeded fault: the cascade recorded root first
flow_cascade_root_first(child, parent, client) ==
    << <<client, "FILL">>, <<parent, "FILL">>, <<child, "FILL">> >>

\* the snapshots of one cascade of generate_complete_flow, in the order added
flow_cascade(child, parent, client) ==
    << <<child, "FILL">>, <<parent, "FILL">>, <<client, "FILL">> >>

\* generate_complete_flow up to the hour loop
generate_complete_flow_orders ==
    /\ variant = "tickdb" /\ pc = "start"
    /\ LET c0 == NewOrder(<<"ORD", 1000>>, <<"NONE", 0>>, 0, order_size, "PENDING")
           c1 == [c0 EXCEPT !.state = "ACCEPTED"]
           a0 == NewOrder(<<"ALGO", 1001>>, c0.order_id, 1, order_size, "WORKING")
       IN /\ client_order' = c1
          /\ algo_parent' = a0
          /\ snapshots' = add_snapshots(snapshots,
                 << <<c0, "NEW">>, <<c1, "ACCEPTED">>, <<a0, "NEW">> >>)
    /\ record_id' = record_id + 3
    /\ sor_counter' = 1002
    /\ hour' = 0
    /\ pc' = "hour"
    /\ UNCHANGED <<cfgVars, sorVars, finVars, timeVars, prodVars, v1Vars, slices, fills, parent_fills,
                   total_filled, total_value, slice_in_hour, hour_slices, urgency,
                   basis, route_num, slice_filled, slice_value, pending, deviations>>

\* one pass of `for hour_idx, participation in enumerate(vwap_profile)`
generate_complete_flow_hour ==
    /\ variant = "tickdb" /\ pc = "hour"
    /\ IF hour >= Len(ProfileTickdb) \/ total_filled >= order_size
       THEN /\ pc' = "final"
            /\ UNCHANGED <<hour_slices, slice_in_hour, deviations>>
       ELSE /\ \E slices_per_hour \in SlicesPerHourTickdb :
                 /\ hour_slices' = slices_per_hour
                 /\ Spend(Departs(slices_per_hour # 2))
            /\ slice_in_hour' = 0
            /\ pc' = "slice"
    /\ UNCHANGED <<cfgVars, sorVars, finVars, timeVars, prodVars, v1Vars, sor_counter, client_order, algo_parent,
                   slices, snapshots, record_id, fills, parent_fills, total_filled,
                   total_value, hour, urgency, basis, route_num, slice_filled,
                   slice_value, pending>>

\* one pass of `for slice_idx in range(slices_per_hour)`: leave, skip an
\* empty slice, or create the algo child
generate_complete_flow_slice ==
    /\ variant = "tickdb" /\ pc = "slice"
    /\ IF slice_in_hour >= hour_slices \/ total_filled >= order_size
       THEN /\ hour' = hour + 1
            /\ pc' = "hour"
            /\ UNCHANGED <<slices, snapshots, record_id, route_num, num_venues,
                           slice_in_hour, slice_filled, slice_value, sor_counter,
                           deviations>>
       ELSE \E jitter \in SliceJitter :
            LET hour_quantity == (order_size * ProfileTickdb[hour + 1]) \div 100
                slice_qty == Min(hour_quantity \div hour_slices + jitter,
                                 order_size - total_filled)
            IN /\ hour' = hour
               /\ IF slice_qty <= 0
                  THEN /\ Spend(Departs(jitter # 0))
                       /\ slice_in_hour' = slice_in_hour + 1
                       /\ pc' = "slice"
                       /\ UNCHANGED <<slices, snapshots, record_id, route_num, num_venues,
                                      slice_filled, slice_value, sor_counter>>
                  ELSE /\ Len(slices) < MaxSlices
                       /\ LET child == NewOrder(<<"ALGOCHILD", sor_counter>>,
                                                algo_parent.order_id, 2, slice_qty, "PENDING")
                          IN /\ slices' = Append(slices, child)
                             /\ snapshots' = add_snapshot(snapshots, child, "NEW")
                       /\ record_id' = record_id + 1
                       /\ sor_counter' = sor_counter + 1
                       /\ \E n \in VenueCounts :
                            /\ num_venues' = n
                            /\ Spend(Departs(jitter # 0) + Departs(n # ReferenceVenues))
                       /\ route_num' = 0
                       /\ slice_filled' = 0
                       /\ slice_value' = 0
                       /\ pc' = "route"
                       /\ UNCHANGED slice_in_hour
    /\ UNCHANGED <<cfgVars, sorVars, finVars, timeVars, prodVars, routed, client_order, algo_parent, fills,
                   parent_fills, total_filled, total_value, hour_slices, urgency, basis,
                   pending>>

\* one pass of `for venue in selected_venues`: leave, skip an empty venue
\* order, or create the SOR child and fill it
generate_complete_flow_route ==
    /\ variant = "tickdb" /\ pc = "route"
    /\ IF route_num >= num_venues \/ slice_filled >= CurSlice.quantity
       THEN /\ pc' = "complete"
            /\ UNCHANGED <<route_num, snapshots, record_id, fills, parent_fills,
                           slice_filled, slice_value, sor_counter, deviations>>
       ELSE \E jitter \in VenueJitter, fill_price \in Prices :
            LET venue_qty == Min(CurSlice.quantity \div num_venues + jitter,
                                 CurSlice.quantity - slice_filled)
                o0 == NewOrder(SorId(sor_counter), CurSlice.order_id, 3, venue_qty, "SENT")
                o1 == [o0 EXCEPT !.filled_quantity = venue_qty,
                                 !.remaining_quantity = 0,
                                 !.average_price = Ratio(fill_price, 1),
                                 !.state = "FILLED"]
            IN /\ Spend(Departs(jitter # 0)
                        + Departs(venue_qty > 0 /\ fill_price # BasePrice))
               /\ (venue_qty <= 0 => fill_price = BasePrice)
               /\ route_num' = route_num + 1
               /\ pc' = "route"
               /\ IF venue_qty <= 0
                  THEN UNCHANGED <<snapshots, record_id, fills, parent_fills,
                                   slice_filled, slice_value, sor_counter>>
                  ELSE /\ snapshots' = add_snapshots(snapshots,
                              << <<o0, "NEW">>, <<o1, "FILL">> >>)
                       /\ record_id' = record_id + 2
                       /\ sor_counter' = sor_counter + 1
                       /\ slice_filled' = slice_filled + venue_qty
                       /\ slice_value' = slice_value + venue_qty * fill_price
                       /\ fills' = Append(fills, [slice |-> Len(slices), hour |-> hour,
                                                  qty |-> venue_qty, price |-> fill_price])
                       /\ parent_fills' = Append(parent_fills,
                                                 [qty |-> venue_qty, price |-> fill_price])
    /\ UNCHANGED <<cfgVars, sorVars, finVars, timeVars, prodVars, v1Vars, client_order, algo_parent, slices,
                   total_filled, total_value, hour, slice_in_hour, hour_slices, urgency,
                   basis, pending>>

\* the end of the slice pass: `if slice_filled > 0`, the algo child update
\* and the cascade to the algo parent and the client order
generate_complete_flow_cascade ==
    /\ variant = "tickdb" /\ pc = "complete"
    /\ IF slice_filled > 0
       THEN LET child == flow_child(CurSlice, slice_filled, slice_value)
                tf == total_filled + slice_filled
                a == flow_parent(algo_parent, tf, parent_fills)
                c == flow_parent(client_order, tf, parent_fills)
            IN /\ slices' = SetCurSlice(child)
               /\ total_filled' = tf
               /\ algo_parent' = a
               /\ client_order' = c
               /\ snapshots' = add_snapshots(snapshots, flow_cascade(child, a, c))
               /\ record_id' = record_id + 3
       ELSE UNCHANGED <<slices, total_filled, algo_parent, client_order, snapshots,
                        record_id>>
    /\ slice_in_hour' = slice_in_hour + 1
    /\ pc' = "slice"
    /\ UNCHANGED <<cfgVars, sorVars, finVars, timeVars, prodVars, v1Vars, sor_counter, fills, parent_fills,
                   total_value, hour, hour_slices, urgency, basis, route_num,
                   slice_filled, slice_value, pending, deviations>>

\* the final status updates of generate_complete_flow
generate_complete_flow_final ==
    /\ variant = "tickdb" /\ pc = "final"
    /\ IF total_filled >= order_size
       THEN LET c == [client_order EXCEPT !.state = "FILLED"]
                a == [algo_parent EXCEPT !.state = "FILLED"]
            IN /\ client_order' = c
               /\ algo_parent' = a
               /\ snapshots' = add_snapshots(snapshots, << <<c, "DONE">>, <<a, "DONE">> >>)
               /\ record_id' = record_id + 2
       ELSE UNCHANGED <<client_order, algo_parent, snapshots, record_id>>
    /\ pc' = "done"
    /\ UNCHANGED <<cfgVars, sorVars, finVars, timeVars, prodVars, v1Vars, sor_counter, slices, fills, parent_fills,
                   total_filled, total_value, hour, slice_in_hour, hour_slices, urgency,
                   basis, route_num, slice_filled, slice_value, pending, deviations>>

----------------------------------------------------------------------------
(* generate_final_vwap  (data/generate_final_vwap.py)                      *)
(* The slice size draw, the route count and the filled quantity by venue   *)
(* outcome are the code of ProductionVWAPGenerator: SliceSizes, NumRoutes, *)
(* FilledQty.                                                              *)

\* the urgency decision of generate_final_vwap: total_filled < expected * 0.7,
\* total_filled < expected * 0.9
final_urgency(filled, expected) ==
    IF filled * 10 < expected * 7 THEN "CRITICAL"
    ELSE IF filled * 10 < expected * 9 THEN "URGENT"
    ELSE "NORMAL"

\* hour_slices of generate_final_vwap, capped: the last hour takes the rest
final_hour_slices(h, created) ==
    LET num_slices == order_size \div avg_slice_size
        slices_per_hour == num_slices \div Hours
    IN Min(IF h < Hours - 1 THEN slices_per_hour ELSE num_slices - created, SliceCap)

\* the slice completion of summary mode
slice_summary(slice_order, filled, value) ==
    [slice_order EXCEPT
        !.filled_quantity = filled,
        !.remaining_quantity = slice_order.quantity - filled,
        !.average_price = IF filled > 0 THEN Ratio(value, filled) ELSE Zero,
        !.state = IF filled >= slice_order.quantity THEN "FILLED" ELSE "PARTIAL"]

\* seeded fault: the hourly update reports the hour's fill, not the total
hourly_client_delta(client, filled, value) ==
    LET d == filled - client.filled_quantity IN
    [client EXCEPT
        !.filled_quantity = d,
        !.remaining_quantity = order_size - d,
        !.average_price = IF d > 0 THEN Ratio(value, d) ELSE Zero,
        !.state = IF d < order_size THEN "WORKING" ELSE "FILLED"]

\* the hourly update to the client
hourly_client(client, filled, value) ==
    [client EXCEPT
        !.filled_quantity = filled,
        !.remaining_quantity = order_size - filled,
        !.average_price = IF filled > 0 THEN Ratio(value, filled) ELSE Zero,
        !.state = IF filled < order_size THEN "WORKING" ELSE "FILLED"]

\* generate_final_vwap up to the hour loop
generate_final_vwap_orders ==
    /\ variant = "final" /\ pc = "start"
    /\ LET c0 == [NewOrder(CLIENT_ID, <<"NONE", 0>>, 0, order_size, "PENDING")
                    EXCEPT !.record_id = record_id]
           a0 == [NewOrder(ALGO_ID, CLIENT_ID, 1, order_size, "WORKING")
                    EXCEPT !.record_id = record_id + 1]
           log1 == append_copy(snapshots, c0, "NEW")
       IN /\ client_order' = c0
          /\ algo_parent' = a0
          /\ IF detail_level # "client_only"
             THEN /\ snapshots' = append_copy(log1, a0, "NEW")
                  /\ record_id' = record_id + 2
             ELSE /\ snapshots' = log1
                  /\ record_id' = record_id + 1
    /\ hour' = 0
    /\ pc' = "hour"
    /\ UNCHANGED <<cfgVars, sorVars, finVars, timeVars, prodVars, v1Vars, sor_counter, slices, fills, parent_fills,
                   total_filled, total_value, slice_in_hour, hour_slices, urgency,
                   basis, route_num, slice_filled, slice_value, pending, deviations>>

\* one pass of `for hour in range(hours)`: leave, or decide the urgency
generate_final_vwap_hour ==
    /\ variant = "final" /\ pc = "hour"
    /\ IF hour >= Hours \/ total_filled >= order_size
       THEN /\ pc' = "done"
            /\ UNCHANGED <<urgency, basis, hour_slices, slice_in_hour>>
       ELSE /\ urgency' = final_urgency(total_filled, (order_size \div Hours) * (hour + 1))
            /\ basis' = total_filled
            /\ hour_slices' = final_hour_slices(hour, Len(slices))
            /\ slice_in_hour' = 0
            /\ pc' = "slice"
    /\ UNCHANGED <<cfgVars, sorVars, finVars, timeVars, prodVars, v1Vars, sor_counter, client_order, algo_parent,
                   slices, snapshots, record_id, fills, parent_fills, total_filled,
                   total_value, hour, route_num, slice_filled, slice_value, pending,
                   deviations>>

\* one pass of the slice loop: leave for the hourly update, or create a slice
generate_final_vwap_slice ==
    /\ variant = "final" /\ pc = "slice"
    /\ IF slice_in_hour >= hour_slices \/ total_filled >= order_size
       THEN /\ pc' = "client"
            /\ UNCHANGED <<slices, snapshots, record_id, route_num, slice_filled, slice_value>>
       ELSE /\ Len(slices) < MaxSlices
            /\ \E drawn \in SliceSizes(urgency, avg_slice_size) :
                 LET size == Min(drawn, order_size - total_filled)
                     s == [NewOrder(SliceId(Len(slices) + 1), ALGO_ID, 2, size, "PENDING")
                             EXCEPT !.urgency = urgency, !.record_id = record_id]
                 IN /\ slices' = Append(slices, s)
                    /\ IF detail_level = "full"
                       THEN /\ snapshots' = append_copy(snapshots, s, "NEW")
                            /\ record_id' = record_id + 1
                       ELSE UNCHANGED <<snapshots, record_id>>
            /\ route_num' = 0
            /\ slice_filled' = 0
            /\ slice_value' = 0
            /\ pc' = "route"
    /\ UNCHANGED <<cfgVars, sorVars, finVars, timeVars, prodVars, v1Vars, sor_counter, client_order, algo_parent,
                   fills, parent_fills, total_filled, total_value, hour, slice_in_hour,
                   hour_slices, urgency, basis, pending, deviations>>

\* one pass of `for route_num in range(num_routes)`
generate_final_vwap_route ==
    /\ variant = "final" /\ pc = "route"
    /\ IF route_num >= NumRoutes(urgency) \/ slice_filled >= CurSlice.quantity
       THEN /\ pc' = "complete"
            /\ UNCHANGED <<route_num, snapshots, record_id, fills, slice_filled,
                           slice_value, sor_counter, deviations>>
       ELSE \E result \in VenueResults, fill_price \in Prices :
            LET route_size == CurSlice.quantity \div NumRoutes(urgency)
                filled_qty == FilledQty(result, route_size)
                sor == [NewOrder(SorId(sor_counter), CurSlice.order_id, 3, route_size, result)
                          EXCEPT !.filled_quantity = filled_qty,
                                 !.remaining_quantity = route_size - filled_qty,
                                 !.average_price = IF filled_qty > 0
                                                   THEN Ratio(fill_price, 1) ELSE Zero,
                                 !.reason = route_reason(result),
                                 !.record_id = record_id]
            IN /\ DrawAllowed(result, filled_qty, fill_price)
               /\ DrawSpent(result, filled_qty, fill_price)
               /\ IF detail_level = "full"
                  THEN /\ snapshots' = append_copy(snapshots, sor, "VENUE_" \o result)
                       /\ record_id' = record_id + 1
                  ELSE UNCHANGED <<snapshots, record_id>>
               /\ sor_counter' = sor_counter + 1
               /\ slice_filled' = slice_filled + filled_qty
               /\ slice_value' = slice_value + filled_qty * fill_price
               /\ fills' = IF filled_qty > 0
                           THEN Append(fills, [slice |-> Len(slices), hour |-> hour,
                                               qty |-> filled_qty, price |-> fill_price])
                           ELSE fills
               /\ route_num' = route_num + 1
               /\ pc' = "route"
    /\ UNCHANGED <<cfgVars, sorVars, finVars, timeVars, prodVars, v1Vars, client_order, algo_parent, slices,
                   parent_fills, total_filled, total_value, hour, slice_in_hour,
                   hour_slices, urgency, basis, pending>>

\* the end of the slice pass: the totals, and the slice summary of summary mode
generate_final_vwap_complete ==
    /\ variant = "final" /\ pc = "complete"
    /\ total_filled' = total_filled + slice_filled
    /\ total_value' = total_value + slice_value
    /\ IF detail_level = "summary" /\ slice_filled > 0
       THEN LET s == slice_summary(CurSlice, slice_filled, slice_value)
            IN /\ slices' = SetCurSlice(s)
               /\ snapshots' = append_copy(snapshots, s, "SLICE_SUMMARY")
               /\ record_id' = record_id + 1
       ELSE UNCHANGED <<slices, snapshots, record_id>>
    /\ slice_in_hour' = slice_in_hour + 1
    /\ pc' = "slice"
    /\ UNCHANGED <<cfgVars, sorVars, finVars, timeVars, prodVars, v1Vars, sor_counter, client_order, algo_parent,
                   fills, parent_fills, hour, hour_slices, urgency, basis, route_num,
                   slice_filled, slice_value, pending, deviations>>

\* the hourly update to the client, at the end of the hour pass
generate_final_vwap_client ==
    /\ variant = "final" /\ pc = "client"
    /\ LET c == [hourly_client(client_order, total_filled, total_value)
                   EXCEPT !.record_id = record_id, !.urgency = urgency]
       IN /\ client_order' = c
          /\ snapshots' = append_copy(snapshots, c, "CLIENT_UPDATE")
    /\ record_id' = record_id + 1
    /\ hour' = hour + 1
    /\ pc' = "hour"
    /\ UNCHANGED <<cfgVars, sorVars, finVars, timeVars, prodVars, v1Vars, sor_counter, algo_parent, slices, fills,
                   parent_fills, total_filled, total_value, slice_in_hour, hour_slices,
                   urgency, basis, route_num, slice_filled, slice_value, pending,
                   deviations>>

----------------------------------------------------------------------------
(* Specification *)

\* the configurations the runs are given: <<variant, detail_level, order_size, avg_slice_size>>
\* (a generator without --detail or --slice-size has "full" and 0 there)
Configs ==
    ({"fixed"} \X DetailLevels \X {7} \X {1})
    \cup ({"prod"} \X {"full"} \X {20, 100} \X {0})
    \cup ({"v2"} \X {"full"} \X {30} \X {0})
    \cup ({"v1"} \X {"full"} \X {100000} \X {0})
    \cup ({"tickdb"} \X {"full"} \X {500} \X {0})
    \cup ({"final"} \X {"full"} \X {8} \X {2})
    \cup ({"final"} \X {"summary"} \X {7} \X {1})
    \cup ({"final"} \X {"summary"} \X {9} \X {3})

NoOrder == NewOrder(<<"NONE", 0>>, <<"NONE", 0>>, 0, 0, "NONE")

Init ==
    /\ \E cfg \in Configs :
          /\ variant = cfg[1]
          /\ detail_level = cfg[2]
          /\ order_size = cfg[3]
          /\ avg_slice_size = cfg[4]
    /\ pc = "start"
    /\ client_order = NoOrder
    /\ algo_parent = NoOrder
    /\ slices = <<>>
    /\ snapshots = <<>>
    /\ record_id = 0
    /\ fills = <<>>
    /\ parent_fills = <<>>
    /\ total_filled = 0
    /\ total_value = 0
    /\ hour = 0
    /\ slice_in_hour = 0
    /\ hour_slices = 0
    /\ urgency = "NONE"
    /\ basis = 0
    /\ route_num = 0
    /\ slice_filled = 0
    /\ slice_value = 0
    /\ pending = NoFill
    /\ deviations = 0
    /\ instruction = "NONE"
    /\ slice_size = 0
    /\ hour_filled = 0
    /\ routed = <<>>
    /\ num_venues = 0
    /\ sor_counter = 1
    /\ remaining_qty = 0
    /\ retry_count = 0
    /\ round_fills = 0
    /\ liquidity = <<>>
    /\ execution_records = <<>>
    /\ venue_list = <<>>
    /\ orders = <<>>
    /\ current_time = 0
    /\ snapshot_times = <<>>

Next ==
    \/ generate_orders
    \/ generate_hour
    \/ generate_slice
    \/ generate_route
    \/ propagate_fill_up_chain
    \/ generate_final
    \/ generate_execution_orders
    \/ generate_execution_hour
    \/ generate_execution_slice
    \/ execute_sor
    \/ generate_execution_complete
    \/ send_order_v2
    \/ generate_child_slice_v2
    \/ route_order_v2
    \/ process_fills_v2
    \/ send_order_v1
    \/ run_hour_v1
    \/ generate_child_slice_v1
    \/ route_order_v1
    \/ receive_venue_fill
    \/ receive_fill
    \/ generate_complete_flow_orders
    \/ generate_complete_flow_hour
    \/ generate_complete_flow_slice
    \/ generate_complete_flow_route
    \/ generate_complete_flow_cascade
    \/ generate_complete_flow_final
    \/ generate_final_vwap_orders
    \/ generate_final_vwap_hour
    \/ generate_final_vwap_slice
    \/ generate_final_vwap_route
    \/ generate_final_vwap_complete
    \/ generate_final_vwap_client

Spec == Init /\ [][Next]_vars

----------------------------------------------------------------------------
(* The urgency classification and the expected schedule on drawn inputs:   *)
(* calculate_urgency of ProductionVWAPSimulator and the classification at  *)
(* the head of the hour loop of ProductionVWAPGenerator.generate, applied  *)
(* to an order quantity, an hour and a cumulative fill.                    *)

\* order quantities: below the number of hours, not divisible by it, round
UrgencyQuantities == {6, 20, 100, 1000, 7000}

\* the expected cumulative quantity at the hour: sum(self.schedule[:hour+1])
\* of the simulator, (self.order_size // hours) * (hour + 1) of the generator
expected_cumulative(h) ==
    IF variant = "prod" THEN ExpectedBy(order_size, h)
    ELSE (order_size \div Hours) * (h + 1)

UrgencyInit ==
    /\ variant \in {"fixed", "prod"}
    /\ detail_level = "full"
    /\ order_size \in UrgencyQuantities
    /\ avg_slice_size = 0
    /\ pc = "classify"
    /\ hour \in 0..(Hours - 1)
    /\ total_filled \in 0..Min(order_size, MaxActual)
    /\ client_order = NoOrder
    /\ algo_parent = NoOrder
    /\ slices = <<>>
    /\ snapshots = <<>>
    /\ record_id = 0
    /\ fills = <<>>
    /\ parent_fills = <<>>
    /\ total_value = 0
    /\ slice_in_hour = 0
    /\ hour_slices = 0
    /\ urgency = "NONE"
    /\ basis = 0
    /\ route_num = 0
    /\ slice_filled = 0
    /\ slice_value = 0
    /\ pending = NoFill
    /\ deviations = 0
    /\ instruction = "NONE"
    /\ slice_size = 0
    /\ hour_filled = 0
    /\ routed = <<>>
    /\ num_venues = 0
    /\ sor_counter = 1
    /\ remaining_qty = 0
    /\ retry_count = 0
    /\ round_fills = 0
    /\ liquidity = <<>>
    /\ execution_records = <<>>
    /\ venue_list = <<>>
    /\ orders = <<>>
    /\ current_time = 0
    /\ snapshot_times = <<>>

\* the classification, as the implementation named by variant computes it
classify_urgency ==
    /\ pc = "classify"
    /\ urgency' = IF variant = "prod"
                  THEN calculate_urgency(hour, total_filled)
                  ELSE UrgencyOfRate(total_filled, (order_size \div Hours) * (hour + 1))
    /\ pc' = "classified"
    /\ UNCHANGED <<cfgVars, sorVars, finVars, timeVars, prodVars, v1Vars, sor_counter, client_order, algo_parent,
                   slices, snapshots, record_id, fills, parent_fills, total_filled,
                   total_value, hour, slice_in_hour, hour_slices, basis, route_num,
                   slice_filled, slice_value, pending, deviations>>

UrgencyNext == classify_urgency

UrgencySpec == UrgencyInit /\ [][UrgencyNext]_vars

----------------------------------------------------------------------------
(* EnhancedSmartOrderRouter.route_order of sor_simulator_enhanced.py, on   *)
(* one algo child order. Quantities are in thousands of shares. The fade   *)
(* draw is free; a tick whose liquidity or price is away from the          *)
(* reference tick spends the deviation budget.                             *)

\* self.max_retries = 2
max_retries == 2
\* venue_ranking[:3]
SelectedVenues == 3

\* quantities of the algo child orders routed
SorQuantities == {3, 5}
\* top-of-book liquidity a tick gives a venue
LiquidityLevels == {1, 2}

\* the liquidity of the top venues by liquidity, highest first
SelectedLiquidity ==
    {t \in [1..SelectedVenues -> LiquidityLevels] :
        \A i \in 1..(SelectedVenues - 1) : t[i] >= t[i + 1]}

\* the algo child dict run_sor_simulation hands over: it has no state and no
\* filled or remaining quantity
algo_child == [order_id |-> ALGO_ID, quantity |-> order_size]

\* the liquidity of the reference tick: the highest level
ReferenceLiquidity == CHOOSE l \in LiquidityLevels : \A m \in LiquidityLevels : m <= l

\* seeded fault: a full Execute-or-Eliminate fill takes all the venue shows
execute_order_take_all(requested_qty, instr, available) ==
    {<<"FADE", 0>>} \cup
    (IF available = 0 THEN {<<"NO_LIQUIDITY", 0>>}
     ELSE IF instr = "ExecuteOrEliminate"
     THEN IF available < requested_qty
          THEN {<<"REJECTED", 0>>, <<"PARTIAL", available>>}
          ELSE {<<"FILLED", available>>}
     ELSE IF instr = "ImmediateOrCancel"
     THEN IF Min(requested_qty, available) > 0
          THEN {<<IF Min(requested_qty, available) = requested_qty
                   THEN "FILLED" ELSE "PARTIAL", Min(requested_qty, available)>>}
          ELSE {<<"NO_LIQUIDITY", 0>>}
     ELSE {<<"FILLED", Min(requested_qty, available)>>})

\* EnhancedVenue.execute_order: the <<response, filled_quantity>> a venue whose
\* own tick shows `available` can return to a request, over the fade draw and
\* the draw on a short Execute-or-Eliminate order
execute_order(requested_qty, instr, available) ==
    {<<"FADE", 0>>} \cup
    (IF available = 0 THEN {<<"NO_LIQUIDITY", 0>>}
     ELSE IF instr = "ExecuteOrEliminate"
     THEN IF available < requested_qty
          THEN {<<"REJECTED", 0>>, <<"PARTIAL", available>>}
          ELSE {<<"FILLED", requested_qty>>}
     ELSE IF instr = "ImmediateOrCancel"
     THEN IF Min(requested_qty, available) > 0
          THEN {<<IF Min(requested_qty, available) = requested_qty
                   THEN "FILLED" ELSE "PARTIAL", Min(requested_qty, available)>>}
          ELSE {<<"NO_LIQUIDITY", 0>>}
     ELSE {<<"FILLED", Min(requested_qty, available)>>})

\* the state route_order gives the SOR order for a response
sor_state(response) ==
    IF response = "NO_LIQUIDITY" THEN "NO_FILL" ELSE response

\* seeded fault: one pass more than 1 + max_retries
retry_allowed_extra(remaining, retries) == remaining > 0 /\ retries <= max_retries + 1

\* while remaining_qty > 0 and retry_count <= self.max_retries
retry_allowed(remaining, retries) == remaining > 0 /\ retries <= max_retries

SorInit ==
    /\ variant = "sor"
    /\ detail_level = "full"
    /\ order_size \in SorQuantities
    /\ avg_slice_size = 0
    /\ pc = "start"
    /\ client_order = NoOrder
    /\ algo_parent = NoOrder
    /\ slices = <<>>
    /\ snapshots = <<>>
    /\ record_id = 0
    /\ fills = <<>>
    /\ parent_fills = <<>>
    /\ total_filled = 0
    /\ total_value = 0
    /\ hour = 0
    /\ slice_in_hour = 0
    /\ hour_slices = 0
    /\ urgency = "NONE"
    /\ basis = 0
    /\ route_num = 0
    /\ slice_filled = 0
    /\ slice_value = 0
    /\ pending = NoFill
    /\ deviations = 0
    /\ instruction = "NONE"
    /\ slice_size = 0
    /\ hour_filled = 0
    /\ routed = <<>>
    /\ num_venues = 0
    /\ sor_counter = 5000
    /\ remaining_qty = 0
    /\ retry_count = 0
    /\ round_fills = 0
    /\ liquidity = <<>>
    /\ execution_records = <<>>
    /\ venue_list = <<>>
    /\ orders = <<>>
    /\ current_time = 0
    /\ snapshot_times = <<>>

\* route_order up to the while loop
route_order_enter ==
    /\ variant = "sor" /\ pc = "start"
    /\ slices' = <<algo_child>>
    /\ execution_records' = <<>>
    /\ total_filled' = 0
    /\ remaining_qty' = algo_child.quantity
    /\ retry_count' = 0
    /\ pc' = "pass"
    /\ UNCHANGED <<cfgVars, finVars, timeVars, prodVars, v1Vars, sor_counter, client_order, algo_parent,
                   snapshots, record_id, fills, parent_fills, total_value, hour,
                   slice_in_hour, hour_slices, urgency, basis, route_num, slice_filled,
                   slice_value, pending, deviations, round_fills, liquidity>>

\* the test of the while loop: return, or tick the market, rank the venues
\* and choose the instruction of the pass
route_order_pass ==
    /\ variant = "sor" /\ pc = "pass"
    /\ IF retry_allowed(remaining_qty, retry_count)
       THEN /\ liquidity' \in SelectedLiquidity
            /\ Spend(Departs(\E i \in 1..SelectedVenues :
                                liquidity'[i] # ReferenceLiquidity))
            /\ instruction' = IF retry_count = 0 THEN "ExecuteOrEliminate"
                              ELSE "ImmediateOrCancel"
            /\ round_fills' = 0
            /\ route_num' = 0
            /\ pc' = "venue"
       ELSE /\ pc' = "done"
            /\ UNCHANGED <<liquidity, instruction, round_fills, route_num, deviations>>
    /\ UNCHANGED <<cfgVars, finVars, timeVars, slice_size, hour_filled, v1Vars, sor_counter, client_order,
                   algo_parent, slices, snapshots, record_id, fills, parent_fills,
                   total_filled, total_value, hour, slice_in_hour, hour_slices, urgency,
                   basis, slice_filled, slice_value, pending, remaining_qty,
                   retry_count, execution_records>>

\* one pass of `for venue_name in selected_venues`: leave the pass and count
\* it, skip a venue without liquidity, or send a SOR order to the venue
route_order_venue ==
    /\ variant = "sor" /\ pc = "venue"
    /\ IF route_num >= Len(liquidity) \/ remaining_qty <= 0
       THEN /\ retry_count' = retry_count + 1
            /\ pc' = "pass"
            /\ UNCHANGED <<route_num, snapshots, record_id, sor_counter, remaining_qty,
                           round_fills, total_filled, execution_records, deviations>>
       ELSE LET venue_liquidity == liquidity[route_num + 1]
                slice_qty == Min(remaining_qty, venue_liquidity)
            IN IF slice_qty <= 0
               THEN /\ route_num' = route_num + 1
                    /\ pc' = "venue"
                    /\ UNCHANGED <<retry_count, snapshots, record_id, sor_counter,
                                   remaining_qty, round_fills, total_filled,
                                   execution_records, deviations>>
               ELSE \E available \in LiquidityLevels, fill_price \in Prices :
                    \E outcome \in execute_order(slice_qty, instruction, available) :
                    LET response == outcome[1]
                        filled_qty == outcome[2]
                        created == [NewOrder(SorId(sor_counter), algo_child.order_id, 3,
                                             slice_qty, "PENDING")
                                      EXCEPT !.state = sor_state(response),
                                             !.filled_quantity = filled_qty]
                        sor_order == IF response \in {"FILLED", "PARTIAL"}
                                     THEN [created EXCEPT
                                             !.average_price = Ratio(fill_price, 1)]
                                     ELSE created
                    IN /\ (filled_qty = 0 => fill_price = BasePrice)
                       /\ Spend(Departs(available # ReferenceLiquidity)
                                + Departs(fill_price # BasePrice))
                       /\ execution_records' = Append(execution_records,
                              [order_id |-> sor_order.order_id,
                               instruction |-> instruction,
                               requested_qty |-> slice_qty,
                               filled_qty |-> filled_qty,
                               response |-> response,
                               retry_count |-> retry_count,
                               available_liquidity |-> venue_liquidity])
                       /\ sor_counter' = sor_counter + 1
                       /\ round_fills' = round_fills + filled_qty
                       /\ remaining_qty' = remaining_qty - filled_qty
                       /\ total_filled' = total_filled + filled_qty
                       /\ snapshots' = add_snapshot(snapshots, sor_order, "SOR_" \o response)
                       /\ record_id' = record_id + 1
                       /\ route_num' = route_num + 1
                       /\ pc' = "venue"
                       /\ UNCHANGED retry_count
    /\ UNCHANGED <<cfgVars, finVars, timeVars, prodVars, v1Vars, client_order, algo_parent, slices, fills,
                   parent_fills, total_value, hour, slice_in_hour, hour_slices, urgency,
                   basis, slice_filled, slice_value, pending, liquidity>>

SorNext ==
    \/ route_order_enter
    \/ route_order_pass
    \/ route_order_venue

\* a call of route_order runs on: the interpreter takes the next step
SorSpec == SorInit /\ [][SorNext]_vars /\ WF_vars(SorNext)

----------------------------------------------------------------------------
(* EnhancedVenue.execute_order of sor_simulator_enhanced.py as an          *)
(* operation of its own: it is a public method, and here a caller hands it *)
(* an order of any quantity with any instruction, against a market whose   *)
(* tick shows any liquidity.                                               *)

\* class OrderInstruction
OrderInstruction == {"ExecuteOrEliminate", "FillOrKill", "ImmediateOrCancel",
                     "Day", "Limit"}
\* order['quantity'] of the orders handed to the venue
VenueRequests == 1..4
\* liquidity.get(self.name, 1000) of the venue's own tick
VenueLiquidity == 0..3

VenueInit ==
    /\ variant = "venue"
    /\ detail_level = "full"
    /\ order_size \in VenueRequests
    /\ avg_slice_size = 0
    /\ pc = "start"
    /\ client_order = NoOrder
    /\ algo_parent = NoOrder
    /\ slices = <<>>
    /\ snapshots = <<>>
    /\ record_id = 0
    /\ fills = <<>>
    /\ parent_fills = <<>>
    /\ total_filled = 0
    /\ total_value = 0
    /\ hour = 0
    /\ slice_in_hour = 0
    /\ hour_slices = 0
    /\ urgency = "NONE"
    /\ basis = 0
    /\ route_num = 0
    /\ slice_filled = 0
    /\ slice_value = 0
    /\ pending = NoFill
    /\ deviations = 0
    /\ instruction \in OrderInstruction
    /\ slice_size = 0
    /\ hour_filled = 0
    /\ routed = <<>>
    /\ num_venues = 0
    /\ sor_counter = 5000
    /\ remaining_qty = 0
    /\ retry_count = 0
    /\ round_fills = 0
    /\ liquidity \in [1..1 -> VenueLiquidity]
    /\ execution_records = <<>>
    /\ venue_list = <<>>
    /\ orders = <<>>
    /\ current_time = 0
    /\ snapshot_times = <<>>

\* one call of execute_order: the venue takes its tick, draws and returns
venue_execute_order ==
    /\ variant = "venue" /\ pc = "start"
    /\ \E outcome \in execute_order(order_size, instruction, liquidity[1]) :
          execution_records' = <<[instruction |-> instruction,
                                  requested_qty |-> order_size,
                                  filled_qty |-> outcome[2],
                                  response |-> outcome[1],
                                  available_liquidity |-> liquidity[1]]>>
    /\ pc' = "returned"
    /\ UNCHANGED <<cfgVars, finVars, timeVars, prodVars, v1Vars, sor_counter, client_order,
                   algo_parent, slices, snapshots, record_id, fills, parent_fills,
                   total_filled, total_value, hour, slice_in_hour, hour_slices,
                   urgency, basis, route_num, slice_filled, slice_value, pending,
                   deviations, remaining_qty, retry_count, round_fills, liquidity>>

VenueNext == venue_execute_order

VenueSpec == VenueInit /\ [][VenueNext]_vars

----------------------------------------------------------------------------
(* The fill cascade as an operation of its own: AlgoEngine.receive_fill of *)
(* simulator v1 and ProductionVWAPGenerator.propagate_fill_up_chain are    *)
(* public methods; here a caller hands them fills of any size.             *)

\* order quantities of the runs; the slice is half the order
FillOrderSizes == {4, 6}

\* the tick database holding these snapshots, stamped 0, 1, ...
InitialLog(items) ==
    [i \in 1..Len(items) |-> snapshot_copy(<<>>, items[i][1], items[i][2], i - 1)[1]]

\* the state after the orders and the first slice were created
FillInit ==
    /\ variant \in {"fixed", "v1"}
    /\ detail_level = "full"
    /\ order_size \in FillOrderSizes
    /\ avg_slice_size = 0
    /\ pc = "await"
    /\ LET c0 == NewOrder(CLIENT_ID, <<"NONE", 0>>, 0, order_size, "PENDING")
           c1 == [c0 EXCEPT !.state = "ACCEPTED"]
           a0 == NewOrder(IF variant = "v1" THEN <<"ALGO", 1000>> ELSE ALGO_ID,
                          CLIENT_ID, 1, order_size, "WORKING")
           s0 == IF variant = "v1"
                 THEN NewOrder(<<"ALGOCHILD", 1001>>, a0.order_id, 2,
                               order_size \div 2, "PENDING")
                 ELSE [NewOrder(SliceId(1), ALGO_ID, 2, order_size \div 2, "PENDING")
                         EXCEPT !.urgency = "CRITICAL"]
       IN /\ client_order = c1
          /\ algo_parent = a0
          /\ slices = <<s0>>
          /\ snapshots = InitialLog(<< <<c0, "NEW">>, <<c1, "ACCEPTED">>,
                                       <<a0, "NEW">>, <<s0, "NEW">> >>)
    /\ record_id = 4
    /\ fills = <<>>
    /\ parent_fills = <<>>
    /\ total_filled = 0
    /\ total_value = 0
    /\ hour = 0
    /\ slice_in_hour = 0
    /\ hour_slices = 1
    /\ urgency = IF variant = "fixed" THEN "CRITICAL" ELSE "NONE"
    /\ basis = 0
    /\ route_num = 0
    /\ slice_filled = 0
    /\ slice_value = 0
    /\ pending = NoFill
    /\ deviations = 0
    /\ instruction = "NONE"
    /\ slice_size = 0
    /\ hour_filled = 0
    /\ routed = <<>>
    /\ num_venues = 0
    /\ sor_counter = IF variant = "v1" THEN 5000 ELSE 1
    /\ remaining_qty = 0
    /\ retry_count = 0
    /\ round_fills = 0
    /\ liquidity = <<>>
    /\ execution_records = <<>>
    /\ venue_list = <<>>
    /\ orders = <<>>
    /\ current_time = 0
    /\ snapshot_times = IF variant = "fixed"
                        THEN <<0, timedelta(0, 0, 1, 0), timedelta(0, 0, 1, 0), 0>>
                        ELSE <<>>

\* a caller invokes the cascade with a fill of its choice, up to one share
\* more than the slice's quantity
deliver_fill ==
    /\ pc \in {"await", "route", "execute"}
    /\ route_num < MaxFills
    /\ \E qty \in 1..(CurSlice.quantity + 1), price \in Prices :
          /\ pending' = [qty |-> qty, price |-> price]
          /\ fills' = Append(fills, [slice |-> Len(slices), hour |-> hour,
                                     qty |-> qty, price |-> price])
          /\ slice_filled' = slice_filled + qty
          /\ slice_value' = slice_value + qty * price
    /\ pc' = "propagate"
    /\ UNCHANGED <<cfgVars, sorVars, finVars, timeVars, prodVars, v1Vars, sor_counter, client_order, algo_parent,
                   slices, snapshots, record_id, parent_fills, total_filled, total_value,
                   hour, slice_in_hour, hour_slices, urgency, basis, route_num,
                   deviations>>

FillNext ==
    \/ deliver_fill
    \/ propagate_fill_up_chain
    \/ receive_fill

FillSpec == FillInit /\ [][FillNext]_vars

----------------------------------------------------------------------------
(* VWAPAlgoSimulator  (scripts/generate_financial_data.py, variant         *)
(* "findata", and scripts/generate_financial_data_fixed.py, variant        *)
(* "findata_fixed").  orders is self.orders, the dicts the run records;    *)
(* slices holds the live child Order objects; fills is self.fills.  In     *)
(* "findata" the root of the tree is self.parent_order, held in            *)
(* algo_parent, and there is no client order object.  Prices are not       *)
(* modelled: no quantity depends on them.                                  *)

\* order quantity of the runs
FinOrderSizes == {100}

\* get_vwap_profile(), in percent
vwap_profile == <<12, 9, 8, 6, 7, 8, 9, 10, 15, 16>>

\* venue_distribution of _route_to_sor, in percent
venue_distribution ==
    [v \in {"NYSE", "NASDAQ", "ARCA", "BATS", "DarkPool", "IEX"} |->
        CASE v = "NYSE" -> 35 [] v = "NASDAQ" -> 25 [] v = "ARCA" -> 15
          [] v = "BATS" -> 10 [] v = "DarkPool" -> 10 [] v = "IEX" -> 5]

\* random.randint(3, 8) and random.randint(2, 5): the ends of the range
NumSlicesDraws == IF variant = "findata" THEN {3, 8} ELSE {2, 5}
ReferenceNumSlices == IF variant = "findata" THEN 3 ELSE 2

\* random.shuffle(venues): two of the orders it can leave the venues in
Shuffles == {<<"NYSE", "NASDAQ", "ARCA", "BATS", "DarkPool", "IEX">>,
             <<"IEX", "DarkPool", "NYSE", "NASDAQ", "ARCA", "BATS">>}
ReferenceShuffle == <<"NYSE", "NASDAQ", "ARCA", "BATS", "DarkPool", "IEX">>
\* venues[:random.randint(1, 4)] and venues[:random.randint(1, 3)]
MaxVenuesFin == IF variant = "findata" THEN 4 ELSE 3

\* random.uniform(0.8, 1.2), in percent: the ends and the middle
UniformDraws == {80, 100, 120}

\* random.randint(-slice_size//4, slice_size//4): the ends and 0
JitterDraws(sz) == {(0 - sz) \div 4, 0, sz \div 4}

\* the dict of a fill; the fills of "findata" have no client_order_id key
FinFill(sor, child, cid, qty) ==
    [order_id |-> sor.order_id, parent_order_id |-> child.order_id,
     client_order_id |-> cid, quantity |-> qty]

\* the fills generated for one SOR order: fill_count fills of
\* venue_qty // fill_count, the last one taking the rest
SorFills(sor, child, venue_qty, fill_count) ==
    LET fill_qty_per == venue_qty \div fill_count
    IN [fill_idx \in 1..fill_count |->
           FinFill(sor, child, <<"NONE", 0>>,
                   IF fill_idx < fill_count THEN fill_qty_per
                   ELSE venue_qty - fill_qty_per * (fill_count - 1))]

\* the state after __init__
FinInit ==
    /\ variant \in {"findata", "findata_fixed"}
    /\ detail_level = "full"
    /\ order_size \in FinOrderSizes
    /\ avg_slice_size = 0
    /\ pc = "start"
    /\ client_order = NoOrder
    /\ algo_parent = IF variant = "findata"
                     THEN NewOrder(<<"ORD", 1>>, <<"NONE", 0>>, 0, order_size, "Pending")
                     ELSE NoOrder
    /\ slices = <<>>
    /\ snapshots = <<>>
    /\ record_id = 0
    /\ fills = <<>>
    /\ parent_fills = <<>>
    /\ total_filled = 0
    /\ total_value = 0
    /\ hour = 0
    /\ slice_in_hour = 0
    /\ hour_slices = 0
    /\ urgency = "NONE"
    /\ basis = 0
    /\ route_num = 0
    /\ slice_filled = 0
    /\ slice_value = 0
    /\ pending = NoFill
    /\ deviations = 0
    /\ instruction = "NONE"
    /\ slice_size = 0
    /\ hour_filled = 0
    /\ routed = <<>>
    /\ num_venues = 0
    /\ sor_counter = 0
    /\ remaining_qty = 0
    /\ retry_count = 0
    /\ round_fills = 0
    /\ liquidity = <<>>
    /\ execution_records = <<>>
    /\ venue_list = <<>>
    /\ orders = <<>>
    /\ current_time = 0
    /\ snapshot_times = <<>>

\* the variables VWAPAlgoSimulator has no counterpart of
finIdle == <<cfgVars, timeVars, v1Vars, instruction, hour_filled, snapshots, record_id, parent_fills, total_value,
             urgency, basis, slice_filled, slice_value, pending, retry_count,
             round_fills, liquidity, execution_records>>

\* generate_execution up to the hour loop: the root orders are recorded
VWAPAlgoSimulator_start ==
    /\ variant \in {"findata", "findata_fixed"} /\ pc = "start"
    /\ IF variant = "findata"
       THEN /\ orders' = <<[algo_parent EXCEPT !.state = "Accepted"]>>
            /\ UNCHANGED <<client_order, algo_parent>>
       ELSE LET c == NewOrder(CLIENT_ID, <<"NONE", 0>>, 0, order_size, "Pending")
                a == NewOrder(ALGO_ID, CLIENT_ID, 1, order_size, "Accepted")
            IN /\ client_order' = c
               /\ algo_parent' = a
               /\ orders' = <<[c EXCEPT !.state = "Accepted"], a>>
    /\ hour' = 1
    /\ pc' = "hour"
    /\ UNCHANGED <<finIdle, slices, fills, total_filled, slice_in_hour, hour_slices,
                   route_num, deviations, slice_size, sor_counter, remaining_qty,
                   venue_list>>

\* the final update of the root orders, after the hour loop
VWAPAlgoSimulator_final ==
    /\ variant \in {"findata", "findata_fixed"} /\ pc = "hour"
    /\ hour > Len(vwap_profile)
    /\ LET Final(o) == [o EXCEPT !.state = IF total_filled >= order_size
                                           THEN "Filled" ELSE "PartiallyFilled",
                                 !.filled_quantity = total_filled,
                                 !.remaining_quantity = order_size - total_filled]
       IN orders' = IF variant = "findata"
                    THEN [orders EXCEPT ![1] = Final(@)]
                    ELSE [orders EXCEPT ![1] = Final(@), ![2] = Final(@)]
    /\ pc' = "done"
    /\ UNCHANGED <<finIdle, client_order, algo_parent, slices, fills, total_filled, hour,
                   slice_in_hour, hour_slices, route_num, deviations, slice_size,
                   sor_counter, remaining_qty, venue_list>>

\* one pass of `for hour_idx, participation_rate in enumerate(self.vwap_profile)`
VWAPAlgoSimulator_hour ==
    /\ variant \in {"findata", "findata_fixed"} /\ pc = "hour"
    /\ hour <= Len(vwap_profile)
    /\ LET hour_quantity == (order_size * vwap_profile[hour]) \div 100
       IN IF hour_quantity = 0
             \/ (variant = "findata_fixed" /\ total_filled >= order_size)
          THEN /\ hour' = hour + 1
               /\ UNCHANGED <<pc, hour_slices, slice_size, slice_in_hour, deviations>>
          ELSE \E num_slices \in NumSlicesDraws :
                  /\ Spend(Departs(num_slices # ReferenceNumSlices))
                  /\ hour_slices' = num_slices
                  /\ slice_size' = hour_quantity \div num_slices
                  /\ slice_in_hour' = 0
                  /\ pc' = "slice"
                  /\ UNCHANGED hour
    /\ UNCHANGED <<finIdle, client_order, algo_parent, slices, fills, total_filled,
                   route_num, sor_counter, remaining_qty, venue_list, orders>>

\* one pass of `for slice_idx in range(num_slices)` up to the call of
\* _route_to_sor: the child order is created and recorded
VWAPAlgoSimulator_slice ==
    /\ variant \in {"findata", "findata_fixed"} /\ pc = "slice"
    /\ IF slice_in_hour >= hour_slices \/ total_filled >= order_size
       THEN /\ hour' = hour + 1
            /\ pc' = "hour"
            /\ UNCHANGED <<slices, orders, slice_in_hour, route_num, remaining_qty,
                           venue_list, sor_counter, deviations>>
       ELSE \E jitter \in JitterDraws(slice_size) :
              LET remaining == order_size - total_filled
                  slice_qty == Min(slice_size + jitter, remaining)
              IN IF slice_qty <= 0
                 THEN /\ Spend(Departs(jitter # 0))
                      /\ slice_in_hour' = slice_in_hour + 1
                      /\ UNCHANGED <<slices, orders, pc, hour, route_num, remaining_qty,
                                     venue_list, sor_counter>>
                 ELSE \E shuffled \in Shuffles, n \in 1..MaxVenuesFin :
                        LET child == IF variant = "findata"
                                     THEN [NewOrder(<<"ALGO", Len(orders)>>,
                                                    algo_parent.order_id, 0, slice_qty, "New")
                                             EXCEPT !.client_order_id =
                                                        <<"CLI", Len(slices) + 1>>]
                                     ELSE NewOrder(<<"ALGOCHILD", sor_counter>>,
                                                   ALGO_ID, 2, slice_qty, "New")
                        IN /\ Spend(Departs(jitter # 0)
                                    + Departs(shuffled # ReferenceShuffle) + Departs(n # 1))
                           /\ slices' = Append(slices, child)
                           /\ orders' = Append(orders, child)
                           /\ sor_counter' = IF variant = "findata" THEN sor_counter
                                             ELSE sor_counter + 1
                           /\ remaining_qty' = slice_qty
                           /\ venue_list' = SubSeq(shuffled, 1, n)
                           /\ route_num' = 0
                           /\ pc' = "route"
                           /\ UNCHANGED <<hour, slice_in_hour>>
    /\ UNCHANGED <<finIdle, client_order, algo_parent, fills, total_filled, hour_slices,
                   slice_size>>

\* one pass of `for venue in venues[:n]` of _route_to_sor, or its return
\* and the caller's bookkeeping for the slice
route_to_sor ==
    /\ variant \in {"findata", "findata_fixed"} /\ pc = "route"
    /\ IF route_num >= Len(venue_list) \/ remaining_qty <= 0
       THEN /\ IF variant = "findata"
               THEN /\ slices' = [slices EXCEPT ![Len(slices)] =
                          [@ EXCEPT !.filled_quantity = CurSlice.quantity - remaining_qty,
                                    !.state = IF remaining_qty = 0 THEN "Filled"
                                              ELSE "PartiallyFilled"]]
                    /\ total_filled' = total_filled + CurSlice.quantity
                    /\ UNCHANGED orders
               ELSE LET slice_qty == CurSlice.quantity
                        child_filled == slice_qty - remaining_qty
                        k == CHOOSE i \in 1..Len(orders) :
                                 orders[i].order_id = CurSlice.order_id
                    IN /\ orders' = [orders EXCEPT ![k] =
                             [@ EXCEPT !.filled_quantity = child_filled,
                                       !.remaining_quantity = slice_qty - child_filled,
                                       !.state = IF child_filled >= slice_qty THEN "Filled"
                                                 ELSE "PartiallyFilled"]]
                       /\ total_filled' = total_filled + child_filled
                       /\ UNCHANGED slices
            /\ slice_in_hour' = slice_in_hour + 1
            /\ pc' = "slice"
            /\ UNCHANGED <<fills, route_num, remaining_qty, sor_counter, deviations>>
       ELSE /\ \E u \in UniformDraws :
                 LET venue == venue_list[route_num + 1]
                     venue_qty == Min((remaining_qty * venue_distribution[venue] * u) \div 10000,
                                      remaining_qty)
                 IN IF venue_qty <= 0
                    THEN /\ Spend(Departs(u # 100))
                         /\ route_num' = route_num + 1
                         /\ UNCHANGED <<orders, fills, remaining_qty, sor_counter>>
                    ELSE \E fill_count \in (IF variant = "findata" THEN 1..3 ELSE {1}) :
                           LET sor == IF variant = "findata"
                                      THEN [NewOrder(<<"SOR_" \o venue, CurSlice.order_id[2]>>,
                                                     CurSlice.order_id, 0, venue_qty, "Filled")
                                              EXCEPT !.filled_quantity = venue_qty,
                                                     !.remaining_quantity = 0,
                                                     !.client_order_id =
                                                         <<"SOR", Len(slices)>>]
                                      ELSE [NewOrder(<<"SOR_" \o venue, sor_counter>>,
                                                     CurSlice.order_id, 3, venue_qty, "Filled")
                                              EXCEPT !.filled_quantity = venue_qty,
                                                     !.remaining_quantity = 0]
                           IN /\ Spend(Departs(u # 100) + Departs(fill_count # 1))
                              /\ orders' = Append(orders, sor)
                              /\ fills' = fills \o
                                    (IF variant = "findata"
                                     THEN SorFills(sor, CurSlice, venue_qty, fill_count)
                                     ELSE <<FinFill(sor, CurSlice, CLIENT_ORDER_ID, venue_qty)>>)
                              /\ sor_counter' = IF variant = "findata" THEN sor_counter
                                                ELSE sor_counter + 1
                              /\ remaining_qty' = remaining_qty - venue_qty
                              /\ route_num' = route_num + 1
            /\ UNCHANGED <<slices, total_filled, slice_in_hour, pc>>
    /\ UNCHANGED <<finIdle, client_order, algo_parent, hour, hour_slices, slice_size,
                   venue_list>>

FinNext ==
    \/ VWAPAlgoSimulator_start
    \/ VWAPAlgoSimulator_hour
    \/ VWAPAlgoSimulator_slice
    \/ route_to_sor
    \/ VWAPAlgoSimulator_final

FinSpec == FinInit /\ [][FinNext]_vars

----------------------------------------------------------------------------
(* Properties *)

\* the orders of levels 0 to 2 the program holds
HeldOrders == {client_order, algo_parent} \cup {slices[k] : k \in 1..Len(slices)}

Balanced(o) == o.filled_quantity + o.remaining_quantity = o.quantity

\* no fill is waiting for its cascade: fixed and v1 cascade every fill, the
\* others cascade once the slice is routed
Cascaded ==
    IF variant \in {"fixed", "v1"} THEN pending = NoFill
    ELSE pc \notin {"route", "complete"}

\* event types of the snapshots a cascade records, by level
SliceCascadeEvents == {"SLICE_UPDATE", "ALGO_SLICE_FILLED", "SLICE_COMPLETE", "FILL"}
ParentCascadeEvents == {"ALGO_UPDATE", "ALGO_PARENT_UPDATE", "FILL"}
ClientCascadeEvents == {"CLIENT_UPDATE", "FILL"}

IsCascadeSnapshot(r, level, events) == r.order_level = level /\ r.event_type \in events

RECURSIVE SumFilled(_)
SumFilled(os) == IF os = <<>> THEN 0 ELSE os[1].filled_quantity + SumFilled(Tail(os))

\* C1: in the fill-propagation chain of ProductionVWAPGenerator and of the
\* simulators v1 and v2, every client, algo parent and slice order, and every
\* snapshot recorded of one, has filled_quantity + remaining_quantity = quantity.
C1_FilledPlusRemaining ==
    variant \in {"fixed", "v1", "v2"} =>
        /\ \A o \in HeldOrders : Balanced(o)
        /\ \A i \in 1..Len(snapshots) :
              snapshots[i].order_level \in 0..2 => Balanced(snapshots[i])

\* a slice partly filled by two fills, cascaded to a client that is partly filled
C1_Witness ==
    /\ variant = "fixed" /\ pending = NoFill /\ Len(slices) > 0
    /\ Len(FillsOf(Len(slices))) >= 2
    /\ CurSlice.remaining_quantity > 0
    /\ client_order.filled_quantity > 0 /\ client_order.remaining_quantity > 0

\* C2: after every fill cascade the algo parent's filled_quantity is the sum
\* of the slices' filled_quantity, and every slice's filled_quantity is the
\* sum of the fills of the routes under it, whatever the venues answered.
C2_FilledIsSumOfChildren ==
    (variant \in {"fixed", "v2", "prod"} /\ Cascaded) =>
        /\ algo_parent.filled_quantity = SumFilled(slices)
        /\ \A k \in 1..Len(slices) : slices[k].filled_quantity = SumQty(FillsOf(k))

\* two slices cascaded, the second one after the first, both with fills
C2_Witness ==
    /\ variant = "v2" /\ Cascaded /\ Len(slices) >= 2
    /\ \A k \in 1..Len(slices) : Len(FillsOf(k)) >= 2
    /\ algo_parent.filled_quantity > slices[1].filled_quantity

\* C3: in ProductionVWAPGenerator, after every propagate_fill_up_chain the
\* slice's average_price times its filled_quantity is the sum of qty * price
\* over all the fills the slice has received.
C3_SliceAverageOverAllFills ==
    (variant = "fixed" /\ Cascaded) =>
        \A k \in 1..Len(slices) :
            slices[k].filled_quantity > 0 =>
                slices[k].average_price[1] * slices[k].filled_quantity
                    = SumValue(FillsOf(k)) * slices[k].average_price[2]

\* C4: after every fill cascade the algo parent's average_price is the
\* quantity-weighted mean of the complete fill log: average_price times
\* filled_quantity is the sum of qty * price over every fill of the order.
C4_ParentAverageOverFillLog ==
    (variant \in {"fixed", "v1"} /\ Cascaded /\ Len(fills) > 0) =>
        /\ algo_parent.filled_quantity = SumQty(fills)
        /\ RatEq(algo_parent.average_price, Ratio(SumValue(fills), SumQty(fills)))

\* fills of two slices at two prices, all cascaded
C4_Witness ==
    /\ variant = "v1" /\ Cascaded
    /\ \E i, j \in 1..Len(fills) :
          fills[i].slice # fills[j].slice /\ fills[i].price # fills[j].price

\* C5: after each fill cascade, and in the client snapshot the cascade
\* records, the client order's filled_quantity, remaining_quantity,
\* average_price and state are the algo parent's.
C5_ClientMirrorsParent ==
    variant \in {"fixed", "v2", "prod"} =>
        /\ \A i \in 1..Len(snapshots) :
              IsCascadeSnapshot(snapshots[i], 0, ClientCascadeEvents) =>
                  /\ i > 1
                  /\ snapshots[i - 1].order_level = 1
                  /\ snapshots[i].filled_quantity = snapshots[i - 1].filled_quantity
                  /\ snapshots[i].remaining_quantity = snapshots[i - 1].remaining_quantity
                  /\ snapshots[i].average_price = snapshots[i - 1].average_price
                  /\ snapshots[i].state = snapshots[i - 1].state
        /\ (Cascaded /\ \E i \in 1..Len(snapshots) :
                           IsCascadeSnapshot(snapshots[i], 0, ClientCascadeEvents)) =>
              /\ client_order.filled_quantity = algo_parent.filled_quantity
              /\ client_order.remaining_quantity = algo_parent.remaining_quantity
              /\ client_order.average_price = algo_parent.average_price
              /\ client_order.state = algo_parent.state

\* a client that mirrors a partly filled parent with an average price
C5_Witness ==
    /\ variant = "prod" /\ Cascaded
    /\ client_order.filled_quantity > 0 /\ client_order.remaining_quantity > 0
    /\ client_order.average_price # Zero
    /\ client_order.state = "WORKING"
    /\ Len(slices) >= 2

TerminalStates == {"FILLED", "REJECT", "REJECTED", "CANCELLED"}

\* C6: terminal states are absorbing in the snapshot log: after a snapshot
\* of an order in state Filled, Rejected or Cancelled, every later snapshot
\* of the same order_id has that state and that filled_quantity.
C6_TerminalAbsorbing ==
    \A i, j \in 1..Len(snapshots) :
        (/\ i < j
         /\ snapshots[i].order_id = snapshots[j].order_id
         /\ snapshots[i].state \in TerminalStates) =>
            /\ snapshots[j].state = snapshots[i].state
            /\ snapshots[j].filled_quantity = snapshots[i].filled_quantity

\* the final update of ProductionVWAPGenerator recorded after the cascade
\* that filled the order
C6_Witness ==
    /\ variant = "fixed"
    /\ \E i, j \in 1..Len(snapshots) :
          /\ i < j
          /\ snapshots[i].order_id = snapshots[j].order_id
          /\ snapshots[i].state = "FILLED"
          /\ snapshots[j].event_type = "COMPLETED"

\* C7: the snapshots of order_level 0, in log order, have a non-decreasing
\* filled_quantity, and one whose state is Filled has filled_quantity equal
\* to the order's quantity.
C7_ClientFilledMonotonic ==
    /\ \A i, j \in 1..Len(snapshots) :
          (i < j /\ snapshots[i].order_level = 0 /\ snapshots[j].order_level = 0) =>
              snapshots[i].filled_quantity <= snapshots[j].filled_quantity
    /\ \A i \in 1..Len(snapshots) :
          (snapshots[i].order_level = 0 /\ snapshots[i].state = "FILLED") =>
              snapshots[i].filled_quantity = order_size

\* hourly client updates of generate_final_vwap that grow, then one that is Filled
C7_Witness ==
    /\ variant = "final"
    /\ \E i, j \in 1..Len(snapshots) :
          /\ i < j
          /\ snapshots[i].order_level = 0 /\ snapshots[j].order_level = 0
          /\ snapshots[i].event_type = "CLIENT_UPDATE"
          /\ snapshots[i].filled_quantity < snapshots[j].filled_quantity
          /\ snapshots[j].state = "FILLED"

\* C8: the snapshots of a fill cascade are in the log leaf before root, the
\* slice, then the algo parent, then the client, with no other snapshot
\* between the first and the last of them.
C8_CascadeLeafBeforeRoot ==
    variant \in {"fixed", "v2", "tickdb"} =>
        \A i \in 1..Len(snapshots) :
            /\ IsCascadeSnapshot(snapshots[i], 2, SliceCascadeEvents) =>
                  /\ i + 2 <= Len(snapshots)
                  /\ IsCascadeSnapshot(snapshots[i + 1], 1, ParentCascadeEvents)
                  /\ IsCascadeSnapshot(snapshots[i + 2], 0, ClientCascadeEvents)
                  /\ snapshots[i].parent_order_id = snapshots[i + 1].order_id
                  /\ snapshots[i + 1].parent_order_id = snapshots[i + 2].order_id
            /\ IsCascadeSnapshot(snapshots[i], 1, ParentCascadeEvents) =>
                  /\ i > 1 /\ i < Len(snapshots)
                  /\ IsCascadeSnapshot(snapshots[i - 1], 2, SliceCascadeEvents)
                  /\ IsCascadeSnapshot(snapshots[i + 1], 0, ClientCascadeEvents)
            /\ IsCascadeSnapshot(snapshots[i], 0, ClientCascadeEvents) =>
                  /\ i > 2
                  /\ IsCascadeSnapshot(snapshots[i - 1], 1, ParentCascadeEvents)
                  /\ IsCascadeSnapshot(snapshots[i - 2], 2, SliceCascadeEvents)

\* two cascades of TickDatabaseGenerator, of two slices
C8_Witness ==
    /\ variant = "tickdb"
    /\ \E i, j \in 1..Len(snapshots) :
          /\ i < j
          /\ IsCascadeSnapshot(snapshots[i], 2, SliceCascadeEvents)
          /\ IsCascadeSnapshot(snapshots[j], 2, SliceCascadeEvents)
          /\ snapshots[i].order_id # snapshots[j].order_id

\* number of snapshots of the log that satisfy P
CountSnapshots(P(_)) == Cardinality({i \in 1..Len(snapshots) : P(snapshots[i])})

\* a route snapshot that records a fill
IsRouteFill(r) == r.order_level = 3 /\ r.filled_quantity > 0
\* a snapshot of the slice, of the algo parent, of the client after a fill
IsSliceFill(r) == IsCascadeSnapshot(r, 2, SliceCascadeEvents) /\ r.filled_quantity > 0
IsParentFill(r) == IsCascadeSnapshot(r, 1, ParentCascadeEvents) /\ r.filled_quantity > 0
IsClientFill(r) ==
    IsCascadeSnapshot(r, 0, ClientCascadeEvents \cup {"FILL_UPDATE"}) /\ r.filled_quantity > 0

\* C9: every non-zero fill produces exactly one snapshot at each of the four
\* levels (route, slice, algo parent, client), at every detail level and in
\* every variant: once the fills are cascaded, each level has as many fill
\* snapshots as there are fills.
C9_OneSnapshotPerLevelPerFill ==
    Cascaded =>
        /\ CountSnapshots(IsRouteFill) = Len(fills)
        /\ CountSnapshots(IsSliceFill) = Len(fills)
        /\ CountSnapshots(IsParentFill) = Len(fills)
        /\ CountSnapshots(IsClientFill) = Len(fills)

\* the hour whose urgency decision is the current one
DecisionHour == IF pc = "hour" THEN hour - 1 ELSE hour

FillsBefore(h) == SelectSeq(fills, LAMBDA f : f.hour < h)

\* C10: slices are processed one after another: when a slice is about to be
\* created every fill of the earlier slices is cascaded into the totals and
\* no fill of an earlier slice comes after one of a later slice, and the
\* urgency of a period was computed from a cumulative fill that holds every
\* fill of the periods before it.
C10_SlicesSequential ==
    variant \in {"fixed", "prod"} =>
        /\ pc \in {"hour", "slice"} =>
              /\ pending = NoFill
              /\ total_filled = SumQty(fills)
              /\ algo_parent.filled_quantity = SumQty(fills)
              /\ \A k \in 1..Len(slices) : slices[k].filled_quantity = SumQty(FillsOf(k))
        /\ \A i, j \in 1..Len(fills) : i < j => fills[i].slice <= fills[j].slice
        /\ (urgency # "NONE" /\ pc \in {"hour", "slice", "route", "propagate", "complete"}) =>
              basis = SumQty(FillsBefore(DecisionHour))

\* the urgency of a later period, decided on the fills of the periods before
C10_Witness ==
    /\ variant = "fixed" /\ pc = "slice"
    /\ hour >= 1 /\ basis > 0 /\ Len(slices) >= 2
    /\ basis = SumQty(fills)


\* the routing of slice k of the generator has ended
RoutingEnded(k) == k < Len(slices) \/ pc \notin {"route", "propagate", "complete"}

\* the quantity of slice k no route has filled
Residual(k) == slices[k].quantity - SumQty(FillsOf(k))

\* the newest snapshot of the order is in that state with that remaining quantity
LastRecordedAs(id, st, rem) ==
    \E i \in 1..Len(snapshots) :
       /\ snapshots[i].order_id = id
       /\ \A j \in (i + 1)..Len(snapshots) : snapshots[j].order_id # id
       /\ snapshots[i].state = st
       /\ snapshots[i].remaining_quantity = rem

\* C15: a slice whose routing ended with quantity unfilled is held and
\* recorded in state Partial with that quantity as its remaining quantity.
C15_ResidualLeavesSlicePartial ==
    variant = "fixed" =>
        \A k \in 1..Len(slices) :
            (RoutingEnded(k) /\ Residual(k) > 0) =>
                /\ slices[k].state = "PARTIAL"
                /\ slices[k].remaining_quantity = Residual(k)
                /\ detail_level # "client_only" =>
                      LastRecordedAs(slices[k].order_id, "PARTIAL", Residual(k))

\* the venue outcomes that fill nothing
ZeroFillResults == {"FADE", "REJECT", "NO_CONNECTION"}

\* the fill the claim gives a venue outcome on a request
OutcomeFill(result, requested) ==
    IF result \in ZeroFillResults THEN 0
    ELSE IF result = "PARTIAL" THEN requested \div 2
    ELSE requested

\* this step records a route attempt: the new last snapshot is a route's
RouteRecorded ==
    /\ variant \in {"fixed", "final"}
    /\ Len(snapshots') = Len(snapshots) + 1
    /\ snapshots'[Len(snapshots')].order_level = 3

\* C17: a route attempt answered Fade, Reject or NoConnection fills 0 and
\* changes no cumulative fill; Partial fills floor(requested / 2); Filled
\* fills the requested quantity.
C17_FillByVenueOutcome ==
    /\ [](variant \in {"fixed", "final"} =>
            \A i \in 1..Len(snapshots) :
               snapshots[i].order_level = 3 =>
                  /\ snapshots[i].state \in VenueResults
                  /\ snapshots[i].filled_quantity =
                        OutcomeFill(snapshots[i].state, snapshots[i].quantity))
    /\ [][RouteRecorded =>
            LET r == snapshots'[Len(snapshots')] IN
            /\ slice_filled' = slice_filled + OutcomeFill(r.state, r.quantity)
            /\ total_filled' = total_filled
            /\ r.state \in ZeroFillResults =>
                  /\ fills' = fills
                  /\ slices' = slices
                  /\ algo_parent' = algo_parent
                  /\ client_order' = client_order]_vars

\* a partial fill of an odd request is recorded, rounded down
C17_Witness ==
    /\ variant \in {"fixed", "final"}
    /\ \E i \in 1..Len(snapshots) :
          /\ snapshots[i].order_level = 3
          /\ snapshots[i].state = "PARTIAL"
          /\ snapshots[i].quantity % 2 = 1
          /\ 2 * snapshots[i].filled_quantity = snapshots[i].quantity - 1

\* the events a route order is recorded under when the venue filled nothing
ZeroFillEvents == {"VENUE_" \o r : r \in ZeroFillResults}

\* C18: a route order whose venue answered Fade, Reject or NoConnection is
\* recorded in state Rejected and with a reason code.
C18_ZeroFillRouteRejectedWithReason ==
    \A i \in 1..Len(snapshots) :
        (snapshots[i].order_level = 3 /\ snapshots[i].event_type \in ZeroFillEvents) =>
            /\ snapshots[i].state = "REJECTED"
            /\ snapshots[i].reason # "NONE"

\* the newest snapshot of every route order of slice k is in state Filled,
\* and there is one
AllRoutesFilled(k) ==
    /\ \E i \in 1..Len(snapshots) :
          snapshots[i].order_level = 3 /\ snapshots[i].parent_order_id = slices[k].order_id
    /\ \A i \in 1..Len(snapshots) :
          (/\ snapshots[i].order_level = 3
           /\ snapshots[i].parent_order_id = slices[k].order_id
           /\ \A j \in (i + 1)..Len(snapshots) :
                 snapshots[j].order_id # snapshots[i].order_id)
          => snapshots[i].state = "FILLED"

\* C19: a slice all of whose route attempts were fully filled ends Filled
\* with filled_quantity = quantity: the split across the venues loses nothing.
C19_FullFillsFillTheSlice ==
    (variant \in {"fixed", "prod", "final"} /\ detail_level = "full") =>
        \A k \in 1..Len(slices) :
            (RoutingEnded(k) /\ AllRoutesFilled(k)) =>
                /\ slices[k].state = "FILLED"
                /\ slices[k].filled_quantity = slices[k].quantity
                /\ LastRecordedAs(slices[k].order_id, "FILLED", 0)

\* C20: simulator v2, whose routes always fill and whose slices add up to the
\* client quantity, ends with the client Filled, filled_quantity = quantity
\* and remaining 0; before the cascade that completes the quantity neither
\* the client nor the algo parent is Filled.
C20_V2FilledOnlyAtTotal ==
    variant = "v2" =>
        /\ pc = "done" =>
              /\ client_order.state = "FILLED"
              /\ client_order.filled_quantity = order_size
              /\ client_order.remaining_quantity = 0
              /\ LastRecordedAs(CLIENT_ID, "FILLED", 0)
        /\ \A i \in 1..Len(snapshots) :
              (snapshots[i].order_level \in {0, 1} /\ snapshots[i].filled_quantity < order_size)
                  => snapshots[i].state # "FILLED"
        /\ SumFilled(slices) < order_size =>
              (client_order.state # "FILLED" /\ algo_parent.state # "FILLED")

\* the run has ended Filled after a cascade that left the client Working
C20_Witness ==
    /\ variant = "v2" /\ pc = "done"
    /\ client_order.state = "FILLED" /\ client_order.filled_quantity = order_size
    /\ \E i \in 1..Len(snapshots) :
          /\ snapshots[i].order_level = 0
          /\ snapshots[i].event_type = "CLIENT_UPDATE"
          /\ snapshots[i].state = "WORKING"
          /\ snapshots[i].filled_quantity > 0

----------------------------------------------------------------------------
(* Claims on the urgency classification and the schedule (UrgencySpec) *)

\* the urgency the thresholds give a participation rate of 100*actual/expected
RateClass(actual, expected) ==
    IF 100 * actual >= 95 * expected THEN "PASSIVE"
    ELSE IF 100 * actual >= 85 * expected THEN "NORMAL"
    ELSE IF 100 * actual >= 70 * expected THEN "URGENT"
    ELSE "CRITICAL"

\* C11: with an expected cumulative quantity above 0, both classifications
\* return Passive at a rate of 95 or more, Normal from 85, Urgent from 70 and
\* Critical below 70; 699 of 1000 is Critical and exactly 70% is Urgent.
C11_UrgencyThresholds ==
    (pc = "classified" /\ expected_cumulative(hour) > 0) =>
        /\ urgency = RateClass(total_filled, expected_cumulative(hour))
        /\ (total_filled = 699 /\ expected_cumulative(hour) = 1000) => urgency = "CRITICAL"
        /\ (100 * total_filled = 70 * expected_cumulative(hour)) => urgency = "URGENT"

\* the simulator has classified a rate of exactly 70% of 1000
C11_Witness ==
    /\ pc = "classified" /\ variant = "prod"
    /\ expected_cumulative(hour) = 1000 /\ total_filled = 700
    /\ urgency = "URGENT"

\* C12: with an expected cumulative quantity of 0 the rate counts as 100%, so
\* both classifications return Passive.
C12_ZeroExpectedIsPassive ==
    (pc = "classified" /\ expected_cumulative(hour) = 0) => urgency = "PASSIVE"

\* C13: the expected cumulative quantity does not decrease from one hour to
\* the next and is the whole order quantity at the last hour, in both
\* implementations.
C13_ScheduleReachesTotal ==
    pc = "classified" =>
    /\ \A h \in 0..(Hours - 2) : expected_cumulative(h) <= expected_cumulative(h + 1)
    /\ expected_cumulative(Hours - 1) = order_size


----------------------------------------------------------------------------
(* Claims on the enhanced SOR (SorSpec) *)

\* C14: route_order returns whatever the venues answer, after at most
\* 1 + max_retries passes over the venues, and creates no route order once
\* nothing remains or the retries are used up.
C14_RouteOrderTerminates ==
    /\ [](/\ retry_count <= max_retries + 1
          /\ \A k \in 1..Len(execution_records) :
                execution_records[k].retry_count <= max_retries)
    /\ [][Len(execution_records') > Len(execution_records) =>
             (remaining_qty > 0 /\ retry_count <= max_retries)]_vars
    /\ <>(pc = "done")

\* route_order has returned after its last allowed pass with quantity left
C14_Witness ==
    /\ variant = "sor" /\ pc = "done"
    /\ retry_count = max_retries + 1
    /\ remaining_qty > 0
    /\ \E k \in 1..Len(execution_records) : execution_records[k].retry_count = max_retries


\* the execution records of pass r of route_order
RecordsOfPass(r) == SelectSeq(execution_records, LAMBDA rec : rec.retry_count = r)

RECURSIVE SumRequested(_)
SumRequested(recs) ==
    IF recs = <<>> THEN 0 ELSE recs[1].requested_qty + SumRequested(Tail(recs))

RECURSIVE SumFilledQty(_)
SumFilledQty(recs) ==
    IF recs = <<>> THEN 0 ELSE recs[1].filled_qty + SumFilledQty(Tail(recs))

\* the quantity the passes before pass r left unfilled
ResidualBefore(r) ==
    order_size - SumFilledQty(SelectSeq(execution_records, LAMBDA rec : rec.retry_count < r))

\* the slice dict shows that state, filled and remaining quantity
SliceShows(o, st, filled, rem) ==
    /\ {"state", "filled_quantity", "remaining_quantity"} \subseteq DOMAIN o
    /\ o.state = st
    /\ o.filled_quantity = filled
    /\ o.remaining_quantity = rem

\* C16: the requests of a retry pass add up to at most the quantity the
\* earlier passes left; a slice whose retries fill all of that ends Filled
\* with filled_quantity = quantity; a slice whose retries fill nothing keeps
\* the residual of the first pass as its remaining quantity.
C16_RetryRoutesOnlyResidual ==
    variant = "sor" =>
        /\ \A r \in 1..max_retries :
              SumRequested(RecordsOfPass(r)) <= ResidualBefore(r)
        /\ (pc = "done" /\ retry_count > 1 /\ remaining_qty = 0) =>
              SliceShows(slices[1], "FILLED", order_size, 0)
        /\ (pc = "done" /\ retry_count > 1 /\ remaining_qty = ResidualBefore(1)) =>
              SliceShows(slices[1], "PARTIAL", order_size - remaining_qty, remaining_qty)

----------------------------------------------------------------------------
(* Claims on the routing policy, the error handling and the record keys *)

\* the route orders recorded under slice k, by order id
RoutesOf(k) ==
    {snapshots[i].order_id : i \in {j \in 1..Len(snapshots) :
                                        /\ snapshots[j].order_level = 3
                                        /\ snapshots[j].parent_order_id = SliceId(k)}}

\* the venue count the routing policy allows a slice of this urgency
AllowedRoutes(urg) == IF urg \in {"URGENT", "CRITICAL"} THEN 3 ELSE 2

\* C21: a slice is routed to at most 2 venues when its urgency is Normal or
\* Passive and to at most 3 when it is Urgent or Critical: the route
\* orders recorded under a slice, and the route attempts counted for the
\* slice being routed, never exceed the number its urgency allows.
C21_RouteAttemptsByUrgency ==
    variant \in {"fixed", "final", "prod"} =>
        /\ \A k \in 1..Len(slices) :
               Cardinality(RoutesOf(k)) <= AllowedRoutes(slices[k].urgency)
        /\ (pc \in {"route", "propagate", "complete"} /\ Len(slices) > 0) =>
               route_num <= AllowedRoutes(CurSlice.urgency)

\* the instruction generate_execution sends with each urgency
InstructionOf(urg) ==
    IF urg = "PASSIVE" THEN "POST_ONLY"
    ELSE IF urg = "NORMAL" THEN "LIMIT_IOC"
    ELSE IF urg = "URGENT" THEN "MARKET_IOC"
    ELSE "SWEEP"

BadFill ==
    /\ pc = "propagate" /\ variant \in {"fixed", "v1"}
    /\ (CurSlice.state = "FILLED" \/ pending.qty > CurSlice.remaining_quantity)

\* C23: a fill applied to an order that is already Filled, or larger than
\* the order's remaining_quantity, is rejected: the slice, the algo parent
\* and the client order are left as they were; no remaining_quantity is ever
\* negative and a Filled order never returns to a non-terminal state.
C23_BadFillRejected ==
    /\ [](\A o \in HeldOrders : o.remaining_quantity >= 0)
    /\ [][BadFill => /\ slices' = slices
                      /\ algo_parent' = algo_parent
                      /\ client_order' = client_order]_vars
    /\ [][\A k \in 1..Len(slices) :
             slices[k].state = "FILLED" => slices'[k].state = "FILLED"]_vars

\* the participation the schedule is computed from: participation[:hours], in percent
CurveSum == SumTo(Participation, Hours)

\* C24: a participation curve that does not sum to about 1.0 (here: within
\* one percent of it) is rejected at construction: the simulator built on
\* such a curve creates no order and records no snapshot.
C24_BadCurveRejected ==
    (variant = "prod" /\ CurveSum \notin 99..101) =>
        /\ snapshots = <<>>
        /\ client_order = NoOrder /\ algo_parent = NoOrder
        /\ slices = <<>>

\* a step of the fixed or the final generator that creates a slice
SliceCreated ==
    /\ variant \in {"fixed", "final"} /\ pc = "slice"
    /\ Len(slices') = Len(slices) + 1

\* C25: nothing outside the venue outcome and fill price is drawn at random:
\* with the venue outcomes and prices of a run given, the slices are
\* determined, so the quantity of a slice is the same whatever the random
\* source returns at the step that creates it.
C25_SlicesIndependentOfDraws ==
    [][SliceCreated =>
          \A drawn \in SliceSizes(urgency, avg_slice_size) :
             slices'[Len(slices')].quantity = Min(drawn, order_size - total_filled)]_vars

\* C26: every order at every level and every fill carries the client_order_id
\* of the order at the root of its tree (the first order recorded).
C26_ClientOrderIdPreserved ==
    orders # <<>> =>
        /\ \A i \in 1..Len(orders) :
               orders[i].client_order_id = orders[1].client_order_id
        /\ \A i \in 1..Len(fills) :
               fills[i].client_order_id = orders[1].client_order_id

\* total quantity of a sequence of fill dicts of VWAPAlgoSimulator
RECURSIVE SumFillQuantity(_)
SumFillQuantity(fs) ==
    IF fs = <<>> THEN 0 ELSE fs[1].quantity + SumFillQuantity(Tail(fs))

\* the fills generated under the recorded order o, a child of the root
FillsUnder(o) == SelectSeq(fills, LAMBDA f : f.parent_order_id = o.order_id)

\* C29: when generate_execution of generate_financial_data.py returns, the
\* parent order's filled_quantity is the total quantity of the fills
\* generated under it, and every recorded child order's filled_quantity is
\* the sum of the fills of its SOR orders.
C29_FilledEqualsFills ==
    (variant = "findata" /\ pc = "done") =>
        /\ orders[1].filled_quantity = SumFillQuantity(fills)
        /\ \A i \in 2..Len(orders) :
               orders[i].parent_order_id = orders[1].order_id =>
                  orders[i].filled_quantity = SumFillQuantity(FillsUnder(orders[i]))

\* C27: the record_id values of the tick database are unique and strictly
\* increasing in the order the snapshots were appended, at every detail
\* level, also where some snapshots are skipped.
C27_RecordIdsIncrease ==
    \A i \in 1..(Len(snapshots) - 1) :
        snapshots[i].record_id < snapshots[i + 1].record_id

\* the final generator in summary mode has appended a slice's summary, whose
\* record_id was stamped when the slice was created and not recorded
C27_Witness ==
    /\ variant = "final" /\ detail_level = "summary"
    /\ Len(snapshots) >= 3
    /\ snapshots[Len(snapshots)].event_type = "SLICE_SUMMARY"
    /\ snapshots[Len(snapshots)].record_id = Len(snapshots) - 1

\* C28: every route-order snapshot recorded by ProductionVWAPSimulator's
\* execute_sor and by EnhancedSmartOrderRouter.route_order has
\* filled_quantity + remaining_quantity = quantity, the snapshots recorded
\* after a FILLED or PARTIAL venue response included.
C28_RouteSnapshotsBalance ==
    variant \in {"prod", "sor"} =>
        \A i \in 1..Len(snapshots) :
            snapshots[i].order_level = 3 =>
                snapshots[i].filled_quantity + snapshots[i].remaining_quantity
                    = snapshots[i].quantity

----------------------------------------------------------------------------
(* Claims on the venue outcomes, the order of the states and the bounds    *)
(* of the quantities                                                       *)

\* the last snapshot recorded of the order with this id
LastSnapshotOf(id) ==
    LET is == {i \in 1..Len(snapshots) : snapshots[i].order_id = id}
    IN snapshots[CHOOSE i \in is : \A j \in is : j <= i]

\* the venue outcomes a route order ends in
TerminalOutcomes == {"FILLED", "PARTIAL", "FADE", "REJECT", "NO_CONNECTION"}

\* C31: every route order that is created is recorded with a terminal venue
\* outcome: once the step that routes it is over, the last snapshot of a
\* route order never shows state PENDING.
C31_RoutesReachOutcome ==
    variant \in {"prod", "fixed"} =>
        \A i \in 1..Len(snapshots) :
            snapshots[i].order_level = 3 =>
                LastSnapshotOf(snapshots[i].order_id).state \in TerminalOutcomes

\* the place of a state in the lifecycle of simulator v2
StateRank ==
    [st \in {"PENDING", "ACCEPTED", "WORKING", "PARTIALLY_FILLED", "FILLED"} |->
        CASE st = "PENDING" -> 0 [] st = "ACCEPTED" -> 1 [] st = "WORKING" -> 2
          [] st = "PARTIALLY_FILLED" -> 3 [] st = "FILLED" -> 4]

\* the indices of the snapshots of the same order recorded before snapshot j
EarlierOf(j) ==
    {i \in 1..(j - 1) : snapshots[i].order_id = snapshots[j].order_id}

\* C32: in simulator v2 the state shown by successive snapshots of one slice
\* or route order never moves backward; an order is first shown PENDING, a
\* slice is shown WORKING before FILLED or PARTIALLY_FILLED, and no snapshot
\* shows a fill or a later state on an order not yet shown ACCEPTED.
C32_StatesNeverRegress ==
    variant = "v2" =>
        \A j \in 1..Len(snapshots) :
            snapshots[j].order_level \in {2, 3} =>
                /\ \A i \in EarlierOf(j) :
                       StateRank[snapshots[i].state] <= StateRank[snapshots[j].state]
                /\ (snapshots[j].state # "PENDING" =>
                       \E i \in EarlierOf(j) : snapshots[i].state = "PENDING")
                /\ ((snapshots[j].filled_quantity > 0
                        \/ StateRank[snapshots[j].state] > 1) =>
                       \E i \in EarlierOf(j) : snapshots[i].state = "ACCEPTED")
                /\ ((snapshots[j].order_level = 2
                        /\ snapshots[j].state \in {"FILLED", "PARTIALLY_FILLED"}) =>
                       \E i \in EarlierOf(j) : snapshots[i].state = "WORKING")

\* a slice of simulator v2 has gone through its whole lifecycle: its routes
\* were filled at the venues and the slice is recorded FILLED
C32_Witness ==
    /\ variant = "v2" /\ Len(snapshots) > 0
    /\ snapshots[Len(snapshots)].event_type = "CLIENT_UPDATE"
    /\ \E j \in 1..Len(snapshots) :
          /\ snapshots[j].event_type = "ALGO_SLICE_FILLED"
          /\ snapshots[j].state = "FILLED"
    /\ \E j \in 1..Len(snapshots) :
          /\ snapshots[j].event_type = "SOR_FILLED"
          /\ snapshots[j].state = "FILLED" /\ snapshots[j].filled_quantity > 0

\* C33: an order recorded in state PARTIAL or PARTIALLY_FILLED has
\* 0 < filled_quantity < quantity: an order or route that received no fill
\* at all is never recorded as partially filled.
C33_PartialMeansSomeFill ==
    variant \in {"prod", "fixed"} =>
        \A i \in 1..Len(snapshots) :
            snapshots[i].state \in {"PARTIAL", "PARTIALLY_FILLED"} =>
                /\ 0 < snapshots[i].filled_quantity
                /\ snapshots[i].filled_quantity < snapshots[i].quantity

\* C34: at every level and in every recorded snapshot
\* 0 <= filled_quantity <= quantity: the cumulative fill of the client order
\* and the algo parent never exceeds the order and the fills routed for a
\* slice never exceed the slice, whatever slice sizes and venue outcomes are
\* drawn.
C34_FilledWithinQuantity ==
    variant \in {"fixed", "tickdb", "final"} =>
        /\ \A i \in 1..Len(snapshots) :
               /\ 0 <= snapshots[i].filled_quantity
               /\ snapshots[i].filled_quantity <= snapshots[i].quantity
        /\ \A o \in HeldOrders :
               0 <= o.filled_quantity /\ o.filled_quantity <= o.quantity

\* an order has been filled to the last share by slices cut to what was left
\* of it: the client order's fill has reached its quantity and a route and
\* a slice are recorded filled to theirs
C34_Witness ==
    /\ variant \in {"fixed", "final"} /\ order_size > 0
    /\ client_order.filled_quantity = order_size
    /\ Len(slices) >= 2
    /\ CurSlice.quantity < avg_slice_size * 2
    /\ \E i \in 1..Len(snapshots) :
          /\ snapshots[i].order_level = 0
          /\ snapshots[i].filled_quantity = snapshots[i].quantity
    /\ \E i \in 1..Len(snapshots) :
          /\ snapshots[i].order_level \in {2, 3}
          /\ snapshots[i].filled_quantity = snapshots[i].quantity
          /\ snapshots[i].quantity > 0

----------------------------------------------------------------------------
(* Claims on the bookkeeping of the smart order router                     *)

\* the quantity the execution records before the i-th report as filled
FilledBefore(i) == SumFillQuantity([j \in 1..(i - 1) |->
                       [quantity |-> execution_records[j].filled_qty]])

\* C35: throughout route_order the filled and the remaining quantity add up to
\* the quantity of the algo child and the remaining quantity is not negative;
\* no venue is asked for more than was left when it was asked; the total the
\* call returns is at most the quantity of the algo child
C35_RouterBalances ==
    (variant = "sor" /\ pc # "start") =>
        /\ total_filled + remaining_qty = algo_child.quantity
        /\ remaining_qty >= 0
        /\ \A i \in 1..Len(execution_records) :
               /\ execution_records[i].requested_qty
                      <= algo_child.quantity - FilledBefore(i)
               /\ execution_records[i].requested_qty > 0
        /\ FilledBefore(Len(execution_records) + 1) = total_filled
        /\ (pc = "done" => total_filled <= algo_child.quantity)

\* the call returned after a retry pass, with a short fill and a full fill on
\* record and with part of the quantity left
C35_Witness ==
    /\ variant = "sor" /\ pc = "done"
    /\ retry_count >= 2
    /\ total_filled > 0 /\ remaining_qty > 0
    /\ \E i, j \in 1..Len(execution_records) :
          /\ execution_records[i].response = "PARTIAL"
          /\ execution_records[i].filled_qty < execution_records[i].requested_qty
          /\ execution_records[j].response = "FILLED"
          /\ execution_records[j].retry_count >= 1

\* C36: whatever the instruction and the liquidity, execute_order returns a
\* filled quantity between 0 and the requested quantity, answers FILLED only
\* with the whole request filled, and fills nothing when it answers FADE,
\* REJECTED or NO_LIQUIDITY
C36_VenueFillsWithinRequest ==
    (variant = "venue" /\ pc = "returned") =>
        \A i \in 1..Len(execution_records) :
            LET r == execution_records[i]
            IN /\ 0 <= r.filled_qty /\ r.filled_qty <= r.requested_qty
               /\ (r.response = "FILLED" => r.filled_qty = r.requested_qty)
               /\ (r.response \in {"FADE", "REJECTED", "NO_LIQUIDITY"}
                      => r.filled_qty = 0)

\* the same for the two instructions route_order sends
RoutedInstructionsFillWithinRequest ==
    (variant = "venue" /\ pc = "returned"
       /\ instruction \in {"ExecuteOrEliminate", "ImmediateOrCancel"}) =>
        C36_VenueFillsWithinRequest

\* C37: every route order in the log has a quantity above 0, also when the
\* slice has fewer shares than the venues it is split across
C37_RoutesHaveQuantity ==
    variant \in {"v2", "prod", "final", "fixed"} =>
        \A i \in 1..Len(snapshots) :
            snapshots[i].order_level = 3 => snapshots[i].quantity > 0

\* the same for one generator at a time
RoutesHaveQuantityIn(v) ==
    variant = v => \A i \in 1..Len(snapshots) :
                      snapshots[i].order_level = 3 => snapshots[i].quantity > 0
RoutesHaveQuantityFixed == RoutesHaveQuantityIn("fixed")
RoutesHaveQuantityV2 == RoutesHaveQuantityIn("v2")
RoutesHaveQuantityFinal == RoutesHaveQuantityIn("final")
RoutesHaveQuantityProd == RoutesHaveQuantityIn("prod")

\* C38: in the fixed and in the production generator snapshot_time never
\* decreases along the log: no record carries a time earlier than the record
\* appended before it
C38_SnapshotTimeNonDecreasing ==
    variant \in {"fixed", "prod"} =>
        \A i \in 1..(Len(snapshot_times) - 1) :
            snapshot_times[i] <= snapshot_times[i + 1]

\* every record of the two generators has its snapshot_time
SnapshotsAreTimed ==
    variant \in {"fixed", "prod"} => Len(snapshot_times) = Len(snapshots)

\* the same, from the first slice on and with the events named in the claim:
\* no slice completion and no parent or client update is earlier than a
\* route record before it
UpdatesNotBeforeRoutes(v) ==
    variant = v =>
        \A i, j \in 1..Len(snapshots) :
            (/\ i < j
             /\ snapshots[i].order_level = 3
             /\ snapshots[j].order_level < 3
             /\ snapshots[j].event_type # "NEW")
                => snapshot_times[i] <= snapshot_times[j]
UpdatesNotBeforeRoutesFixed == UpdatesNotBeforeRoutes("fixed")
UpdatesNotBeforeRoutesProd == UpdatesNotBeforeRoutes("prod")

\* the time never decreases from the first slice record on
OrderedFromFirstSlice(v) ==
    variant = v =>
        \A i \in 4..(Len(snapshot_times) - 1) :
            snapshot_times[i] <= snapshot_times[i + 1]
OrderedFromFirstSliceFixed == OrderedFromFirstSlice("fixed")

====
